---- MODULE Spec2Model ----
(***************************************************************************)
(* NextPress script loading: the dependency resolver                       *)
(* (sortScriptsByDependencies) and the two sequential phase loaders        *)
(* (HeadScripts, BodyScripts) that consume its order.                      *)
(***************************************************************************)
EXTENDS Integers, Sequences, FiniteSets, TLC

(***************************************************************************)
(* Bounds                                                                  *)
(***************************************************************************)
\* longest descriptor list handed to the resolver
MaxScripts == 3
\* most dependency references in one resolver input, all descriptors together
MaxEdges == 3
\* most loader component instances (mounts) in one page lifetime
MaxRuns == 2
\* longest scripts prop of a page
MaxPage == 3
\* most scripts of a page whose loaders are followed to the end
MaxLivePage == 1
\* longest text handed to encodeWithSalt, in UTF-16 code units
MaxText == 3
\* longest salt, in UTF-16 code units
MaxSalt == 2
\* longest free string of a settings payload, in lexemes
MaxValue == 2
\* most segments of the path of an asset URL
MaxSegments == 3

\* handle names; a reference to a name no descriptor of the list carries is
\* a dependency on a script that is not part of the batch
Handles == {"a", "b", "c"}
\* a descriptor without a handle (script.handle undefined or '')
NoHandle == ""
\* the instance prop of the loaders
Instance == "default"
\* what one dependency reference can name: a handle, of the list or not
DepNames == Handles

(***************************************************************************)
(* Sequence helpers                                                        *)
(***************************************************************************)
Range(s) == {s[i] : i \in 1..Len(s)}

Includes(s, x) == \E i \in 1..Len(s) : s[i] = x

Count(s, x) == Cardinality({i \in 1..Len(s) : s[i] = x})

(***************************************************************************)
(* EnqueuedScript                                                          *)
(***************************************************************************)
EnqueuedScript(id, handle, src, deps, location, extra, before, after) ==
  [id |-> id, handle |-> handle, src |-> src, dependencies |-> deps,
   location |-> location, extraData |-> extra, before |-> before,
   after |-> after]

HasHandle(script) == script.handle # NoHandle

(***************************************************************************)
(* sortScriptsByDependencies                                               *)
(***************************************************************************)
\* Map key order: the handles of the list in order of first occurrence
RECURSIVE HandleOrder(_, _, _)
HandleOrder(scripts, i, acc) ==
  IF i > Len(scripts) THEN acc
  ELSE HandleOrder(scripts, i + 1,
         IF HasHandle(scripts[i]) /\ ~Includes(acc, scripts[i].handle)
         THEN Append(acc, scripts[i].handle) ELSE acc)

\* scriptMap.get(handle): a later set() of the same handle overwrites
ScriptMapGet(scripts, handle) ==
  LET idx == {i \in 1..Len(scripts) : scripts[i].handle = handle}
  IN scripts[CHOOSE i \in idx : \A j \in idx : j <= i]

ScriptMapHas(scripts, handle) ==
  handle # NoHandle /\ \E i \in 1..Len(scripts) : scripts[i].handle = handle

\* a dependency reference that adds an edge
IsEdge(scripts, dep) == dep # NoHandle /\ ScriptMapHas(scripts, dep)

\* the dependents pushed onto adjList[handle] by the references of one script
RECURSIVE DepPushes(_, _, _, _)
DepPushes(scripts, script, handle, j) ==
  IF j > Len(script.dependencies) THEN <<>>
  ELSE (IF script.dependencies[j] = handle /\ IsEdge(scripts, handle)
        THEN <<script.handle>> ELSE <<>>)
       \o DepPushes(scripts, script, handle, j + 1)

\* adjList.get(handle) after the graph is built
RECURSIVE AdjList(_, _, _)
AdjList(scripts, handle, i) ==
  IF i > Len(scripts) THEN <<>>
  ELSE (IF HasHandle(scripts[i])
        THEN DepPushes(scripts, scripts[i], handle, 1) ELSE <<>>)
       \o AdjList(scripts, handle, i + 1)

\* number of edge references of one script
RECURSIVE EdgeCount(_, _, _)
EdgeCount(scripts, script, j) ==
  IF j > Len(script.dependencies) THEN 0
  ELSE (IF IsEdge(scripts, script.dependencies[j]) THEN 1 ELSE 0)
       + EdgeCount(scripts, script, j + 1)

\* inDegree.get(handle) after the graph is built
RECURSIVE InDegree(_, _, _)
InDegree(scripts, handle, i) ==
  IF i > Len(scripts) THEN 0
  ELSE (IF scripts[i].handle = handle
        THEN EdgeCount(scripts, scripts[i], 1) ELSE 0)
       + InDegree(scripts, handle, i + 1)

InitialInDegree(scripts) ==
  [h \in Range(HandleOrder(scripts, 1, <<>>)) |-> InDegree(scripts, h, 1)]

Reverse(s) == [i \in 1..Len(s) |-> s[Len(s) + 1 - i]]

\* a queue seeded with every handle, whatever its in-degree
InitialQueueAll(scripts) == HandleOrder(scripts, 1, <<>>)

\* a queue seeded in reverse Map order
InitialQueueReversed(scripts) ==
  LET deg == InitialInDegree(scripts)
      Zero(h) == deg[h] = 0
  IN Reverse(SelectSeq(HandleOrder(scripts, 1, <<>>), Zero))

\* the handles with in-degree 0, in Map order
InitialQueue(scripts) ==
  LET deg == InitialInDegree(scripts)
      Zero(h) == deg[h] = 0
  IN SelectSeq(HandleOrder(scripts, 1, <<>>), Zero)

\* whether a decremented dependent joins the queue
Ready(newDegree) == newDegree = 0

\* dependents.forEach of one dequeued handle
RECURSIVE Relax(_, _, _, _)
Relax(dependents, k, inDegree, queue) ==
  IF k > Len(dependents) THEN [inDegree |-> inDegree, queue |-> queue]
  ELSE LET dependent == dependents[k]
           newDegree == inDegree[dependent] - 1
       IN Relax(dependents, k + 1,
                [inDegree EXCEPT ![dependent] = newDegree],
                IF Ready(newDegree) THEN Append(queue, dependent) ELSE queue)

\* a loop that takes the handle pushed last: queue.pop() for queue.shift()
RECURSIVE KahnStack(_, _, _, _)
KahnStack(scripts, queue, inDegree, sorted) ==
  IF queue = <<>> THEN sorted
  ELSE LET current == queue[Len(queue)]
           r == Relax(AdjList(scripts, current, 1), 1, inDegree,
                      SubSeq(queue, 1, Len(queue) - 1))
       IN KahnStack(scripts, r.queue, r.inDegree, Append(sorted, current))

\* while (queue.length > 0): the handles in the order they leave the queue
RECURSIVE Kahn(_, _, _, _)
Kahn(scripts, queue, inDegree, sorted) ==
  IF queue = <<>> THEN sorted
  ELSE LET current == Head(queue)
           r == Relax(AdjList(scripts, current, 1), 1, inDegree, Tail(queue))
       IN Kahn(scripts, r.queue, r.inDegree, Append(sorted, current))

QueueOrder(scripts) ==
  Kahn(scripts, InitialQueue(scripts), InitialInDegree(scripts), <<>>)

\* a check that never finds a cycle
CircularDetectedNever(scripts, sorted) == FALSE

\* the circular-dependency check
CircularDetected(scripts, sorted) == Len(sorted) # Len(scripts)

\* the handles the queue did not order are left out
AddRemainingNone(scripts, i, sorted) == sorted

\* the handles the queue did not order are put in front
RECURSIVE AddRemainingFirst(_, _, _)
AddRemainingFirst(scripts, i, sorted) ==
  IF i > Len(scripts) THEN sorted
  ELSE AddRemainingFirst(scripts, i + 1,
         IF HasHandle(scripts[i]) /\ ~Includes(sorted, scripts[i].handle)
         THEN <<scripts[i].handle>> \o sorted ELSE sorted)

\* the handles the queue did not order, pushed last to first
RECURSIVE AddRemainingReversed(_, _, _)
AddRemainingReversed(scripts, i, sorted) ==
  IF i > Len(scripts) THEN sorted
  ELSE LET script == scripts[Len(scripts) + 1 - i]
       IN AddRemainingReversed(scripts, i + 1,
            IF HasHandle(script) /\ ~Includes(sorted, script.handle)
            THEN Append(sorted, script.handle) ELSE sorted)

\* scripts.forEach: push the handles the queue did not order
RECURSIVE AddRemaining(_, _, _)
AddRemaining(scripts, i, sorted) ==
  IF i > Len(scripts) THEN sorted
  ELSE AddRemaining(scripts, i + 1,
         IF HasHandle(scripts[i]) /\ ~Includes(sorted, scripts[i].handle)
         THEN Append(sorted, scripts[i].handle) ELSE sorted)

\* one call: the list it returns and whether it warned on the console
SortRun(scripts) ==
  IF scripts = <<>> THEN [sorted |-> <<>>, warned |-> FALSE]
  ELSE LET queued == QueueOrder(scripts)
           circular == CircularDetected(scripts, queued)
           sorted == IF circular THEN AddRemaining(scripts, 1, queued)
                     ELSE queued
           NoHandleTest(s) == ~HasHandle(s)
       IN [sorted |-> [k \in 1..Len(sorted) |->
                         ScriptMapGet(scripts, sorted[k])]
                      \o SelectSeq(scripts, NoHandleTest),
           warned |-> circular]

sortScriptsByDependencies(scripts) == SortRun(scripts).sorted


(***************************************************************************)
(* URLs                                                                    *)
(***************************************************************************)
\* a descriptor without src, id
NoSrc == ""
NoId == ""

JQueryUrl == "https://wp.example.com/wp-includes/js/jquery.js"
ApiFetchUrl == "https://wp.example.com/wp-includes/js/api-fetch.js"
WcSettingsUrl == "https://wp.example.com/wp-content/plugins/woocommerce/wc-settings.js"
StripeUrl == "https://js.stripe.com/v3/"
BackendUrl == "https://wp.example.com"

\* new URL(url): origin and the segments of pathname; ok is FALSE when the
\* constructor throws
ParseURL(url) ==
  CASE url = JQueryUrl ->
         [ok |-> TRUE, origin |-> "https://wp.example.com",
          segments |-> <<"wp-includes", "js", "jquery.js">>]
    [] url = ApiFetchUrl ->
         [ok |-> TRUE, origin |-> "https://wp.example.com",
          segments |-> <<"wp-includes", "js", "api-fetch.js">>]
    [] url = WcSettingsUrl ->
         [ok |-> TRUE, origin |-> "https://wp.example.com",
          segments |-> <<"wp-content", "plugins", "woocommerce",
                         "wc-settings.js">>]
    [] url = StripeUrl ->
         [ok |-> TRUE, origin |-> "https://js.stripe.com",
          segments |-> <<"v3", "">>]
    [] url = BackendUrl ->
         [ok |-> TRUE, origin |-> "https://wp.example.com",
          segments |-> <<>>]
    [] OTHER -> [ok |-> FALSE, origin |-> "", segments |-> <<>>]

\* the text of a path given by its segments
RECURSIVE PathText(_)
PathText(segments) ==
  IF segments = <<>> THEN ""
  ELSE "/" \o Head(segments) \o PathText(Tail(segments))

\* extractPath: pathname of a URL, or the text itself when it does not parse
extractPath(url) ==
  IF ParseURL(url).ok THEN PathText(ParseURL(url).segments) ELSE url

\* /^\/wp-(?:includes|admin)\// on the pathname of a parsed URL
isInternalRoute(url) ==
  LET segments == ParseURL(url).segments
  IN /\ ParseURL(url).ok
     /\ Len(segments) >= 2
     /\ segments[1] \in {"wp-includes", "wp-admin"}

\* the proxied src of a WordPress asset
ProxySrc(url, instance) ==
  IF isInternalRoute(url)
  THEN "/atx/" \o instance \o "/wp-internal-assets" \o extractPath(url)
  ELSE "/atx/" \o instance \o "/wp-assets" \o extractPath(url)

isExternalScript(scriptUrl, backendUrl) ==
  /\ ParseURL(scriptUrl).ok
  /\ ParseURL(backendUrl).ok
  /\ ParseURL(scriptUrl).origin # ParseURL(backendUrl).origin

\* the src given to the script element
TransformSrc(kind, script, backendUrl, instance) ==
  IF script.src = NoSrc THEN NoSrc
  ELSE IF kind = "body" /\ backendUrl # "" /\
          isExternalScript(script.src, backendUrl)
       THEN script.src
       ELSE ProxySrc(script.src, instance)

(***************************************************************************)
(* The scripts a page can enqueue                                          *)
(***************************************************************************)
JQuery ==
  EnqueuedScript("script-jquery", "jquery", JQueryUrl, <<>>, "HEADER",
                 FALSE, FALSE, TRUE)
ApiFetch ==
  EnqueuedScript("script-wp-api-fetch", "wp-api-fetch", ApiFetchUrl,
                 <<"jquery">>, "HEADER", TRUE, TRUE, FALSE)
HeadInline ==
  EnqueuedScript(NoId, NoHandle, NoSrc, <<>>, "HEADER", TRUE, FALSE, FALSE)
WcSettings ==
  EnqueuedScript(NoId, "wc-settings", WcSettingsUrl, <<>>, "FOOTER",
                 FALSE, TRUE, TRUE)
Stripe ==
  EnqueuedScript(NoId, NoHandle, StripeUrl, <<"wc-settings">>, "FOOTER",
                 FALSE, FALSE, FALSE)
FootInline ==
  EnqueuedScript(NoId, NoHandle, NoSrc, <<>>, "FOOTER", FALSE, TRUE, FALSE)

\* the order in which WordPress enqueues them
ScriptPool == <<ApiFetch, JQuery, HeadInline, Stripe, WcSettings, FootInline>>

\* the scripts prop of a page: at most n scripts of the pool, in pool order
RECURSIVE PageListsFrom(_, _)
PageListsFrom(k, n) ==
  IF k > Len(ScriptPool) \/ n = 0 THEN {<<>>}
  ELSE PageListsFrom(k + 1, n) \cup
       {<<ScriptPool[k]>> \o l : l \in PageListsFrom(k + 1, n - 1)}

PageLists(n) == PageListsFrom(1, n)

(***************************************************************************)
(* Phase loaders: HeadScripts and BodyScripts                              *)
(***************************************************************************)
Location(kind) == IF kind = "head" THEN "HEADER" ELSE "FOOTER"

\* scripts.filter(script => script.location === ...)
FilterLocation(list, kind) ==
  LET Here(s) == s.location = Location(kind)
  IN SelectSeq(list, Here)

\* script.id || script.handle || script.src || `inline-${currentIndex}`
CacheKey(script, currentIndex) ==
  IF script.id # NoId THEN script.id
  ELSE IF script.handle # NoHandle THEN script.handle
  ELSE IF script.src # NoSrc THEN script.src
  ELSE "inline-" \o ToString(currentIndex)

\* a component instance that has not run its effect
NewLoader(kind) ==
  [kind |-> kind,
   hasLoadedRef |-> FALSE, phase |-> "idle", scripts |-> <<>>,
   sortedScripts |-> <<>>, currentIndex |-> 0, backendUrl |-> "",
   fetching |-> FALSE, completions |-> 0, domReady |-> 0,
   replay |-> FALSE]

Element(loader, kind, key, src, state, after) ==
  [loader |-> loader, kind |-> kind, key |-> key, src |-> src,
   state |-> state, after |-> after]

\* a loader that injects the before fragment ahead of extraData
InlineElementsBeforeFirst(i, kind, script, key) ==
  (IF script.before
   THEN <<Element(i, "before", key, NoSrc, "inline", FALSE)>> ELSE <<>>)
  \o (IF script.extraData
      THEN <<Element(i, "extra", key, NoSrc, "inline", FALSE)>> ELSE <<>>)
  \o (IF kind = "head" /\ script.handle = "wp-api-fetch"
      THEN <<Element(i, "config", key, NoSrc, "inline", FALSE)>> ELSE <<>>)

\* the inline elements injected ahead of the main script
InlineElements(i, kind, script, key) ==
  (IF script.extraData
   THEN <<Element(i, "extra", key, NoSrc, "inline", FALSE)>> ELSE <<>>)
  \o (IF script.before
      THEN <<Element(i, "before", key, NoSrc, "inline", FALSE)>> ELSE <<>>)
  \o (IF kind = "head" /\ script.handle = "wp-api-fetch"
      THEN <<Element(i, "config", key, NoSrc, "inline", FALSE)>> ELSE <<>>)

\* the element is attached and the next script follows at once
MainScriptNoWait(i, script, key, src, cache, doc) ==
  IF src # NoSrc
  THEN [cache |-> cache,
        doc |-> Append(doc, Element(i, "script", key, src, "pending",
                                    script.after)),
        next |-> TRUE]
  ELSE [cache |-> cache \cup {key}, doc |-> doc, next |-> TRUE]

\* if (src) { attach and wait } else { LoadCache.add; loadNextScript() }
MainScript(i, script, key, src, cache, doc) ==
  IF src # NoSrc
  THEN [cache |-> cache,
        doc |-> Append(doc, Element(i, "script", key, src, "pending",
                                    script.after)),
        next |-> FALSE]
  ELSE [cache |-> cache \cup {key}, doc |-> doc, next |-> TRUE]

\* the end test one script too early
FinishedEarly(L) == L.currentIndex + 1 >= Len(L.sortedScripts)

\* if (currentIndex >= sortedScripts.length)
Finished(L) == L.currentIndex >= Len(L.sortedScripts)

\* if (LoadCache.has(cacheKey))
AlreadyLoaded(cache, key) == key \in cache

\* loadNextScript of loader i, up to the script it waits for or to the end
RECURSIVE loadNextScript(_, _, _, _, _)
loadNextScript(i, L, cache, doc, wc) ==
  IF Finished(L)
  THEN [loader |-> [L EXCEPT !.phase = "done",
                             !.completions = @ + 1,
                             !.domReady = IF L.kind = "body" THEN @ + 1
                                          ELSE @],
        cache |-> cache, doc |-> doc, wc |-> wc]
  ELSE LET script == L.sortedScripts[L.currentIndex + 1]
           L1 == [L EXCEPT !.currentIndex = @ + 1, !.phase = "loading"]
           key == CacheKey(script, L1.currentIndex)
       IN IF AlreadyLoaded(cache, key)
          THEN loadNextScript(i, L1, cache, doc, wc)
          ELSE LET src == TransformSrc(L.kind, script, L.backendUrl, Instance)
                   doc1 == doc \o InlineElements(i, L.kind, script, key)
                   wc1 == wc \/ (L.kind = "body" /\ script.before /\
                                 script.handle = "wc-settings")
                   m == MainScript(i, script, key, src, cache, doc1)
               IN IF m.next
                  THEN loadNextScript(i, L1, m.cache, m.doc, wc1)
                  ELSE [loader |-> L1, cache |-> m.cache, doc |-> m.doc,
                        wc |-> wc1]

\* a BodyScripts effect without the waitFor test
GatedNever(kind, waitFor) == FALSE

\* if (!waitFor) return, for BodyScripts only
Gated(kind, waitFor) == kind = "body" /\ ~waitFor

(***************************************************************************)
(* Symmetric origin encoder: encodeWithSalt (proxy) and decodeWithSalt     *)
(* (BodyScripts). A JavaScript string is a sequence of UTF-16 code units,  *)
(* a Buffer or Uint8Array a sequence of bytes, a base64 text a sequence of *)
(* indices into the base64 alphabet with Base64Pad for '='.                *)
(***************************************************************************)
\* the code units the texts are made of: A, e-acute (2 bytes in UTF-8), the
\* euro sign (3 bytes), the byte order mark U+FEFF, and the two halves of
\* the surrogate pair of U+1F600 (4 bytes)
LetterA == 65
EAcute == 233
EuroSign == 8364
ByteOrderMark == 65279
HighSurrogate == 55357
LowSurrogate == 56832
ReplacementChar == 65533
CodeUnits ==
  {LetterA, EAcute, EuroSign, ByteOrderMark, HighSurrogate, LowSurrogate}
\* the code units of the salts
SaltUnits == {LetterA, EAcute}

IsHighSurrogate(u) == u >= 55296 /\ u <= 56319
IsLowSurrogate(u) == u >= 56320 /\ u <= 57343

\* the UTF-8 bytes of one code point
CodePointBytes(cp) ==
  IF cp < 128 THEN <<cp>>
  ELSE IF cp < 2048 THEN <<192 + (cp \div 64), 128 + (cp % 64)>>
  ELSE IF cp < 65536
  THEN <<224 + (cp \div 4096), 128 + ((cp \div 64) % 64), 128 + (cp % 64)>>
  ELSE <<240 + (cp \div 262144), 128 + ((cp \div 4096) % 64),
         128 + ((cp \div 64) % 64), 128 + (cp % 64)>>

\* Buffer.from(text, 'utf8') and new TextEncoder().encode(text): a surrogate
\* pair is one code point, a lone surrogate becomes U+FFFD
RECURSIVE Utf8Encode(_, _)
Utf8Encode(text, i) ==
  IF i > Len(text) THEN <<>>
  ELSE IF /\ IsHighSurrogate(text[i])
          /\ i < Len(text)
          /\ IsLowSurrogate(text[i + 1])
  THEN CodePointBytes(65536 + (text[i] - 55296) * 1024
                            + (text[i + 1] - 56320))
       \o Utf8Encode(text, i + 2)
  ELSE IF IsHighSurrogate(text[i]) \/ IsLowSurrogate(text[i])
  THEN CodePointBytes(ReplacementChar) \o Utf8Encode(text, i + 1)
  ELSE CodePointBytes(text[i]) \o Utf8Encode(text, i + 1)

\* a ^ b on bytes
RECURSIVE BitXor(_, _, _)
BitXor(a, b, bits) ==
  IF bits = 0 THEN 0
  ELSE (IF a % 2 = b % 2 THEN 0 ELSE 1)
       + 2 * BitXor(a \div 2, b \div 2, bits - 1)

\* a decoder that uses the first salt byte for every position
SaltByteFirst(saltBytes, i) == saltBytes[1]

\* saltBytes[i % saltBytes.length], for the 0-based position i
SaltByte(saltBytes, i) == saltBytes[(i % Len(saltBytes)) + 1]

\* the for loop of encodeWithSalt
EncodeLoop(textBytes, saltBytes) ==
  [k \in 1..Len(textBytes) |->
     BitXor(textBytes[k], saltBytes[((k - 1) % Len(saltBytes)) + 1], 8)]

\* the for loop of decodeWithSalt
DecodeLoop(encodedBytes, saltBytes) ==
  [k \in 1..Len(encodedBytes) |->
     BitXor(encodedBytes[k], SaltByte(saltBytes, k - 1), 8)]

Base64Pad == 64

\* encoded.toString('base64'): three bytes make four characters, a last
\* group of one or two bytes is padded with '='
RECURSIVE Base64Encode(_, _)
Base64Encode(bytes, i) ==
  IF i > Len(bytes) THEN <<>>
  ELSE IF i = Len(bytes)
  THEN <<bytes[i] \div 4, (bytes[i] % 4) * 16, Base64Pad, Base64Pad>>
  ELSE IF i + 1 = Len(bytes)
  THEN <<bytes[i] \div 4,
         (bytes[i] % 4) * 16 + (bytes[i + 1] \div 16),
         (bytes[i + 1] % 16) * 4,
         Base64Pad>>
  ELSE <<bytes[i] \div 4,
         (bytes[i] % 4) * 16 + (bytes[i + 1] \div 16),
         (bytes[i + 1] % 16) * 4 + (bytes[i + 2] \div 64),
         bytes[i + 2] % 64>>
       \o Base64Encode(bytes, i + 3)

\* Uint8Array.from(atob(encoded), c => c.charCodeAt(0)): four characters
\* make three bytes, fewer where the group ends in '='
RECURSIVE atob(_, _)
atob(encoded, i) ==
  IF i + 3 > Len(encoded) THEN <<>>
  ELSE LET c1 == encoded[i]
           c2 == encoded[i + 1]
           c3 == encoded[i + 2]
           c4 == encoded[i + 3]
           b1 == c1 * 4 + (c2 \div 16)
       IN IF c3 = Base64Pad THEN <<b1>>
          ELSE IF c4 = Base64Pad
          THEN <<b1, (c2 % 16) * 16 + (c3 \div 4)>>
          ELSE <<b1, (c2 % 16) * 16 + (c3 \div 4), (c3 % 4) * 64 + c4>>
               \o atob(encoded, i + 4)

encodeWithSalt(data, salt) ==
  Base64Encode(EncodeLoop(Utf8Encode(data, 1), Utf8Encode(salt, 1)), 1)

\* the UTF-16 code units of one code point
CodePointUnits(cp) ==
  IF cp < 65536 THEN <<cp>>
  ELSE <<55296 + ((cp - 65536) \div 1024), 56320 + ((cp - 65536) % 1024)>>

IsContinuation(bytes, i) ==
  i <= Len(bytes) /\ bytes[i] >= 128 /\ bytes[i] <= 191

\* the UTF-8 decoder of TextDecoder: a byte that starts no well-formed
\* sequence becomes U+FFFD
RECURSIVE Utf8Decode(_, _)
Utf8Decode(bytes, i) ==
  IF i > Len(bytes) THEN <<>>
  ELSE LET b == bytes[i]
       IN IF b < 128 THEN <<b>> \o Utf8Decode(bytes, i + 1)
          ELSE IF b >= 194 /\ b <= 223 /\ IsContinuation(bytes, i + 1)
          THEN CodePointUnits((b - 192) * 64 + (bytes[i + 1] - 128))
               \o Utf8Decode(bytes, i + 2)
          ELSE IF /\ b >= 224 /\ b <= 239
                  /\ IsContinuation(bytes, i + 1)
                  /\ IsContinuation(bytes, i + 2)
                  /\ (b - 224) * 4096 + (bytes[i + 1] - 128) * 64 >= 2048
                  /\ ~IsHighSurrogate((b - 224) * 4096
                                      + (bytes[i + 1] - 128) * 64)
                  /\ ~IsLowSurrogate((b - 224) * 4096
                                     + (bytes[i + 1] - 128) * 64)
          THEN CodePointUnits((b - 224) * 4096 + (bytes[i + 1] - 128) * 64
                              + (bytes[i + 2] - 128))
               \o Utf8Decode(bytes, i + 3)
          ELSE IF /\ b >= 240 /\ b <= 244
                  /\ IsContinuation(bytes, i + 1)
                  /\ IsContinuation(bytes, i + 2)
                  /\ IsContinuation(bytes, i + 3)
                  /\ (b - 240) * 262144 + (bytes[i + 1] - 128) * 4096 >= 65536
                  /\ (b - 240) * 262144 + (bytes[i + 1] - 128) * 4096 < 1114112
          THEN CodePointUnits((b - 240) * 262144
                              + (bytes[i + 1] - 128) * 4096
                              + (bytes[i + 2] - 128) * 64
                              + (bytes[i + 3] - 128))
               \o Utf8Decode(bytes, i + 4)
          ELSE <<ReplacementChar>> \o Utf8Decode(bytes, i + 1)

\* new TextDecoder().decode(decoded): ignoreBOM is false by default, so a
\* leading EF BB BF is consumed and not part of the result
TextDecode(bytes) ==
  IF Len(bytes) >= 3 /\ SubSeq(bytes, 1, 3) = <<239, 187, 191>>
  THEN Utf8Decode(bytes, 4)
  ELSE Utf8Decode(bytes, 1)

decodeWithSalt(encoded, salt) ==
  TextDecode(DecodeLoop(atob(encoded, 1), Utf8Encode(salt, 1)))

(***************************************************************************)
(* Settings payload transform: woocommerce.ts. A text is a sequence of     *)
(* lexemes: a word (a run of unreserved characters A-Z a-z 0-9 - _ . ~,    *)
(* which no stage of the pipeline changes), one other character, or one    *)
(* percent escape %XX.                                                     *)
(***************************************************************************)
Quote == "\""
Apostrophe == "'"
Backslash == "\\"
Newline == "\n"
Space == " "
Percent == "%"

\* the characters that are not unreserved, each with its percent escape
EscapeOf ==
  [c \in {Quote, Apostrophe, Backslash, Newline, Space, Percent,
          "(", ")", "!", "*", ":", "/", "?", "#", "=", "&", "{", "}", ",",
          ";"} |->
     CASE c = Quote -> "%22"
       [] c = Apostrophe -> "%27"
       [] c = Backslash -> "%5C"
       [] c = Newline -> "%0A"
       [] c = Space -> "%20"
       [] c = Percent -> "%25"
       [] c = "(" -> "%28"
       [] c = ")" -> "%29"
       [] c = "!" -> "%21"
       [] c = "*" -> "%2A"
       [] c = ":" -> "%3A"
       [] c = "/" -> "%2F"
       [] c = "?" -> "%3F"
       [] c = "#" -> "%23"
       [] c = "=" -> "%3D"
       [] c = "&" -> "%26"
       [] c = "{" -> "%7B"
       [] c = "}" -> "%7D"
       [] c = "," -> "%2C"
       [] c = ";" -> "%3B"]

ReservedChars == DOMAIN EscapeOf
Escapes == {EscapeOf[c] : c \in ReservedChars}
UnescapeOf(e) == CHOOSE c \in ReservedChars : EscapeOf[c] = e

\* the reserved characters encodeURIComponent leaves as they are
UriMarks == {"!", Apostrophe, "(", ")", "*"}

\* an encoder that leaves no reserved character as it is (RFC 3986)
EncodeLexemeRfc3986(l) == IF l \in ReservedChars THEN EscapeOf[l] ELSE l

\* encodeURIComponent on one lexeme
EncodeLexeme(l) ==
  IF l \in ReservedChars \ UriMarks THEN EscapeOf[l] ELSE l

\* rawurlencode(str): return encodeURIComponent(str)
rawurlencode(str) == [k \in 1..Len(str) |-> EncodeLexeme(str[k])]

\* decodeURIComponent(text): a % that starts no escape is a URIError
decodeURIComponent(text) ==
  IF \E k \in 1..Len(text) : text[k] = Percent
  THEN [ok |-> FALSE, text |-> <<>>]
  ELSE [ok |-> TRUE,
        text |-> [k \in 1..Len(text) |->
                    IF text[k] \in Escapes THEN UnescapeOf(text[k])
                    ELSE text[k]]]

\* the texts of positions lo..hi of a sequence of texts, joined
RECURSIVE Join(_, _, _)
Join(chunks, lo, hi) ==
  IF lo > hi THEN <<>>
  ELSE IF lo = hi THEN chunks[lo]
  ELSE Join(chunks, lo, (lo + hi) \div 2)
       \o Join(chunks, ((lo + hi) \div 2) + 1, hi)

\* whether a match of the pattern, of one or two lexemes, starts at i when
\* the matches are taken from the left and do not overlap
RECURSIVE MatchStartsAt(_, _, _)
MatchStartsAt(text, pattern, i) ==
  /\ i + Len(pattern) - 1 <= Len(text)
  /\ SubSeq(text, i, i + Len(pattern) - 1) = pattern
  /\ ~(Len(pattern) = 2 /\ i > 1 /\ MatchStartsAt(text, pattern, i - 1))

\* text.replace(/pattern/g, replacement) for a literal pattern of one or two
\* lexemes
ReplaceAll(text, pattern, replacement) ==
  Join([i \in 1..Len(text) |->
          IF MatchStartsAt(text, pattern, i) THEN replacement
          ELSE IF Len(pattern) = 2 /\ i > 1
                  /\ MatchStartsAt(text, pattern, i - 1)
          THEN <<>>
          ELSE <<text[i]>>],
       1, Len(text))

\* esc_js(text): backslashes, then apostrophes, then quotes, then newlines
\* (the texts have no carriage return)
esc_js(text) ==
  LET s1 == ReplaceAll(text, <<Backslash>>, <<Backslash, Backslash>>)
      s2 == ReplaceAll(s1, <<Apostrophe>>, <<Backslash, Apostrophe>>)
      s3 == ReplaceAll(s2, <<Quote>>, <<Backslash, Quote>>)
  IN ReplaceAll(s3, <<Newline>>, <<Backslash, "n">>)

\* unescape_js(text): \n, then \", then \', then \\
unescape_js(text) ==
  LET s1 == ReplaceAll(text, <<Backslash, "n">>, <<Newline>>)
      s2 == ReplaceAll(s1, <<Backslash, Quote>>, <<Quote>>)
      s3 == ReplaceAll(s2, <<Backslash, Apostrophe>>, <<Apostrophe>>)
  IN ReplaceAll(s3, <<Backslash, Backslash>>, <<Backslash>>)

\* JSON values: a string (its text), an object (its members in insertion
\* order) or a literal word
JsonString(text) == [t |-> "str", v |-> text]
JsonObject(members) == [t |-> "obj", v |-> members]
JsonLiteral(word) == [t |-> "lit", v |-> <<word>>]
JsonNull == JsonLiteral("null")
Member(key, val) == [k |-> key, val |-> val]
JsonLiterals == {"null", "true", "false", "0", "1"}

IsString(val) == val.t = "str"
IsNull(val) == val.t = "lit" /\ val.v = <<"null">>
IsObject(val) == val.t = "obj"

\* obj[key], or undefined
HasKey(obj, key) == \E m \in 1..Len(obj.v) : obj.v[m].k = key
Get(obj, key) == obj.v[CHOOSE m \in 1..Len(obj.v) : obj.v[m].k = key].val

\* obj[key] = val: an own key keeps its place, a new key goes last
Put(obj, key, val) ==
  IF HasKey(obj, key)
  THEN JsonObject([m \in 1..Len(obj.v) |->
                     IF obj.v[m].k = key THEN Member(key, val) ELSE obj.v[m]])
  ELSE JsonObject(Append(obj.v, Member(key, val)))

\* the characters of a JSON string literal, without the quotes
StringifyChars(text) ==
  Join([i \in 1..Len(text) |->
          IF text[i] \in {Quote, Backslash} THEN <<Backslash, text[i]>>
          ELSE IF text[i] = Newline THEN <<Backslash, "n">>
          ELSE <<text[i]>>],
       1, Len(text))

\* JSON.stringify(value)
RECURSIVE JsonStringify(_)
JsonStringify(val) ==
  IF IsString(val) THEN <<Quote>> \o StringifyChars(val.v) \o <<Quote>>
  ELSE IF IsObject(val)
  THEN LET RECURSIVE Members(_)
           Members(m) ==
             IF m > Len(val.v) THEN <<>>
             ELSE (IF m > 1 THEN <<",">> ELSE <<>>)
                  \o <<Quote>> \o StringifyChars(val.v[m].k) \o <<Quote>>
                  \o <<":">> \o JsonStringify(val.v[m].val)
                  \o Members(m + 1)
       IN <<"{">> \o Members(1) \o <<"}">>
  ELSE val.v

\* the least position from i on that holds one of the lexemes, or
\* Len(text) + 1
FirstOf(text, lexemes, i) ==
  LET at == {j \in i..Len(text) : text[j] \in lexemes}
  IN IF at = {} THEN Len(text) + 1
     ELSE CHOOSE j \in at : \A k \in at : j <= k

\* the position of the first lexeme from i on that is not white space
RECURSIVE SkipSpace(_, _)
SkipSpace(text, i) ==
  IF i <= Len(text) /\ text[i] \in {Space, Newline}
  THEN SkipSpace(text, i + 1) ELSE i

ParseFailed == [ok |-> FALSE, val |-> JsonNull, next |-> 0]

\* the rest of a string literal whose opening quote is before position i; a
\* backslash is followed by a quote, a backslash, a slash or the word n
RECURSIVE ParseChars(_, _, _)
ParseChars(text, i, acc) ==
  IF i > Len(text) \/ text[i] = Newline THEN ParseFailed
  ELSE IF text[i] = Quote
  THEN [ok |-> TRUE, val |-> JsonString(acc), next |-> i + 1]
  ELSE IF text[i] = Backslash
  THEN IF i + 1 > Len(text) THEN ParseFailed
       ELSE IF text[i + 1] \in {Quote, Backslash, "/"}
       THEN ParseChars(text, i + 2, Append(acc, text[i + 1]))
       ELSE IF text[i + 1] = "n"
       THEN ParseChars(text, i + 2, Append(acc, Newline))
       ELSE ParseFailed
  ELSE ParseChars(text, i + 1, Append(acc, text[i]))

RECURSIVE ParseValue(_, _)
RECURSIVE ParseMembers(_, _, _)

\* what follows the brace of an object, at position i: the closing brace or
\* members
ParseObject(text, i) ==
  IF i <= Len(text) /\ text[i] = "}"
  THEN [ok |-> TRUE, val |-> JsonObject(<<>>), next |-> i + 1]
  ELSE ParseMembers(text, i, JsonObject(<<>>))

\* one JSON value whose first lexeme is at position i
ParseValueAt(text, i) ==
  IF i > Len(text) THEN ParseFailed
  ELSE IF text[i] = Quote THEN ParseChars(text, i + 1, <<>>)
  ELSE IF text[i] = "{" THEN ParseObject(text, SkipSpace(text, i + 1))
  ELSE IF text[i] \in JsonLiterals
  THEN [ok |-> TRUE, val |-> JsonLiteral(text[i]), next |-> i + 1]
  ELSE ParseFailed

\* one JSON value starting at position i
ParseValue(text, i) == ParseValueAt(text, SkipSpace(text, i))

\* after a member, at position i: a comma and more members, or the closing
\* brace
ParseMore(text, i, obj) ==
  IF i > Len(text) THEN ParseFailed
  ELSE IF text[i] = "," THEN ParseMembers(text, i + 1, obj)
  ELSE IF text[i] = "}" THEN [ok |-> TRUE, val |-> obj, next |-> i + 1]
  ELSE ParseFailed

\* the member of a key with the value that was parsed for it
ParseMember(text, key, val, obj) ==
  IF ~val.ok THEN ParseFailed
  ELSE ParseMore(text, SkipSpace(text, val.next), Put(obj, key.v, val.val))

\* the colon at position i and the value of the key
ParseColon(text, key, i, obj) ==
  IF i > Len(text) \/ text[i] # ":" THEN ParseFailed
  ELSE ParseMember(text, key, ParseValue(text, i + 1), obj)

\* the key that was parsed, then its colon and value
ParseKey(text, key, obj) ==
  IF ~key.ok THEN ParseFailed
  ELSE ParseColon(text, key.val, SkipSpace(text, key.next), obj)

\* "key": value at position i
ParseMemberAt(text, i, obj) ==
  IF i > Len(text) \/ text[i] # Quote THEN ParseFailed
  ELSE ParseKey(text, ParseChars(text, i + 1, <<>>), obj)

\* "key": value, then a comma and more members or the closing brace
ParseMembers(text, i, obj) == ParseMemberAt(text, SkipSpace(text, i), obj)

\* whether the value that was parsed is the whole text
ParsedAll(text, r) ==
  IF r.ok /\ SkipSpace(text, r.next) = Len(text) + 1
  THEN [ok |-> TRUE, val |-> r.val]
  ELSE [ok |-> FALSE, val |-> JsonNull]

\* JSON.parse(text): a SyntaxError unless the text is one value
JsonParse(text) == ParsedAll(text, ParseValue(text, 1))

\* the first position from i on that holds a quote or an apostrophe, or
\* Len(text) + 1
QuoteFrom(text, i) == FirstOf(text, {Quote, Apostrophe}, i)

\* whether /decodeURIComponent\(\s*['"]([^'"]+)['"]\s*\)/ matches at i
EncodedMatchAt(text, i) ==
  /\ i + 1 <= Len(text)
  /\ text[i] = "decodeURIComponent"
  /\ text[i + 1] = "("
  /\ LET open == SkipSpace(text, i + 2)
     IN /\ open <= Len(text)
        /\ text[open] \in {Quote, Apostrophe}
        /\ LET close == QuoteFrom(text, open + 1)
           IN /\ close > open + 1
              /\ close <= Len(text)
              /\ SkipSpace(text, close + 1) <= Len(text)
              /\ text[SkipSpace(text, close + 1)] = ")"

\* beforeScript.match(...): the captured group of the leftmost match
EncodedMatch(text) ==
  LET at == {i \in 1..Len(text) : EncodedMatchAt(text, i)}
  IN IF at = {} THEN [ok |-> FALSE, group |-> <<>>]
     ELSE LET i == CHOOSE j \in at : \A k \in at : j <= k
              open == SkipSpace(text, i + 2)
          IN [ok |-> TRUE,
              group |-> SubSeq(text, open + 1, QuoteFrom(text, open + 1) - 1)]

DecodeFailed == [ok |-> FALSE, target |-> JsonNull, encodedString |-> <<>>]

\* Step 3: JSON.parse(decodedJson)
DecodeTarget(encodedString, target) ==
  IF ~target.ok THEN DecodeFailed
  ELSE [ok |-> TRUE, target |-> target.val, encodedString |-> encodedString]

\* Step 2: decodeURIComponent(unescaped)
DecodeJson(encodedString, decodedJson) ==
  IF ~decodedJson.ok THEN DecodeFailed
  ELSE DecodeTarget(encodedString, JsonParse(decodedJson.text))

\* Step 1: unescape_js(encodedMatch[1]), when the pattern matched
DecodeMatch(encodedMatch) ==
  IF ~encodedMatch.ok THEN DecodeFailed
  ELSE DecodeJson(encodedMatch.group,
                  decodeURIComponent(unescape_js(encodedMatch.group)))

\* decodeWcSettings(beforeScript): ok is FALSE when it throws
decodeWcSettings(beforeScript) == DecodeMatch(EncodedMatch(beforeScript))

\* the words that \w+ does not match as a whole
NotIdentifiers == {"JSON.parse", "wp.example.com", "shop.example.com",
                   "wp-json", "wp-content", "my-account"}
IsIdentifier(l) ==
  l \notin ReservedChars \cup Escapes \cup NotIdentifiers

\* whether /var\s+(\w+)\s*=/ matches at i
VarMatchAt(text, i) ==
  /\ i + 1 <= Len(text)
  /\ text[i] = "var"
  /\ text[i + 1] \in {Space, Newline}
  /\ LET name == SkipSpace(text, i + 1)
     IN /\ name <= Len(text)
        /\ IsIdentifier(text[name])
        /\ SkipSpace(text, name + 1) <= Len(text)
        /\ text[SkipSpace(text, name + 1)] = "="

\* encodeWcSettings(beforeScript, _encodedString, transformed): ok is FALSE
\* when it throws
encodeWcSettings(beforeScript, encodedString, transformed) ==
  LET json == JsonStringify(transformed)
      urlEncoded == rawurlencode(json)
      escaped == esc_js(urlEncoded)
      at == {i \in 1..Len(beforeScript) : VarMatchAt(beforeScript, i)}
  IN IF at = {} THEN [ok |-> FALSE, text |-> <<>>]
     ELSE LET i == CHOOSE j \in at : \A k \in at : j <= k
              varName == beforeScript[SkipSpace(beforeScript, i + 1)]
          IN [ok |-> TRUE,
              text |-> <<"var", Space, varName, Space, "=", Space,
                         "JSON.parse", "(", Space, "decodeURIComponent",
                         "(", Space, Apostrophe>>
                       \o escaped
                       \o <<Apostrophe, Space, ")", Space, ")", ";">>]

\* what the URL parser makes of one lexeme of a path or a query
UrlLexeme(l) ==
  IF l \in {Space, Quote} THEN EscapeOf[l]
  ELSE IF l = Backslash THEN "/"
  ELSE l

\* the path without its last segment
Shorten(out) ==
  IF out = <<>> THEN <<>>
  ELSE SubSeq(out, 1,
              (CHOOSE k \in 1..Len(out) :
                 out[k] = "/" /\ \A j \in (k + 1)..Len(out) : out[j] # "/")
              - 1)

\* the path after one more segment: .. takes the last segment away, . adds
\* nothing, and either leaves a slash when it is the last segment
PushSegment(out, seg, last) ==
  IF seg = <<"..">>
  THEN Shorten(out) \o (IF last THEN <<"/">> ELSE <<>>)
  ELSE IF seg = <<".">>
  THEN out \o (IF last THEN <<"/">> ELSE <<>>)
  ELSE out \o <<"/">> \o seg

\* the URL parser's path state on a path that starts with a slash: the
\* segments from the slash at position i on, the next slash being at j
RECURSIVE DotSegments(_, _, _, _)
DotSegments(path, i, j, out) ==
  IF i > Len(path) THEN out
  ELSE DotSegments(path, j, FirstOf(path, {"/"}, j + 1),
                   PushSegment(out, SubSeq(path, i + 1, j - 1),
                               j > Len(path)))

\* pathname: backslashes are slashes, spaces and quotes are percent-encoded,
\* dot segments are removed
Pathname(path) ==
  IF path = <<>> THEN <<"/">>
  ELSE DotSegments(path, 1, FirstOf(path, {"/"}, 2), <<>>)

\* the URL of a text whose host ends before hostEnd, with its path and query
UrlOf(text, hostEnd, path, query) ==
  IF /\ Len(text) >= 5
     /\ text[1] \in {"http", "https"}
     /\ text[2] = ":"
     /\ text[3] \in {"/", Backslash}
     /\ text[4] \in {"/", Backslash}
     /\ hostEnd > 5
     /\ \A k \in 5..(hostEnd - 1) :
          text[k] \notin (ReservedChars \ {":"}) \cup Escapes
  THEN [ok |-> TRUE,
        origin |-> <<text[1], ":", "/", "/">>
                   \o SubSeq(text, 5, hostEnd - 1),
        pathname |-> Pathname([k \in 1..Len(path) |-> UrlLexeme(path[k])]),
        search |-> IF Len(query) <= 1 THEN <<>>
                   ELSE [k \in 1..Len(query) |-> UrlLexeme(query[k])]]
  ELSE [ok |-> FALSE, origin |-> <<>>, pathname |-> <<>>,
        search |-> <<>>]

UrlFromPath(text, hostEnd, pathEnd) ==
  UrlOf(text, hostEnd, SubSeq(text, hostEnd, pathEnd - 1),
        SubSeq(text, pathEnd, FirstOf(text, {"#"}, pathEnd) - 1))

UrlFromHost(text, hostEnd) ==
  UrlFromPath(text, hostEnd, FirstOf(text, {"?", "#"}, hostEnd))

\* new URL(text) for http and https: scheme, //, a host of words with an
\* optional port, then path, ?query and #fragment; ok is FALSE when it
\* throws
ParseUrlText(text) ==
  UrlFromHost(text, FirstOf(text, {"/", Backslash, "?", "#"}, 5))

\* new URL(value) of a JSON value: a value that is no string is no URL
NewUrl(val) ==
  IF IsString(val) THEN ParseUrlText(val.v) ELSE ParseUrlText(<<>>)

\* text.replace(/^https?:\/\/[^\/]+/, replacement)
ReplaceOrigin(text, replacement) ==
  IF /\ Len(text) >= 5
     /\ text[1] \in {"http", "https"}
     /\ text[2] = ":" /\ text[3] = "/" /\ text[4] = "/"
     /\ text[5] # "/"
  THEN replacement \o SubSeq(text, FirstOf(text, {"/"}, 5), Len(text))
  ELSE text

\* text.replace('/wp-json', ''): the first occurrence only
ReplaceFirst(text, pattern, replacement) ==
  LET at == {i \in 1..(Len(text) + 1 - Len(pattern)) :
               SubSeq(text, i, i + Len(pattern) - 1) = pattern}
  IN IF at = {} THEN text
     ELSE LET i == CHOOSE j \in at : \A k \in at : j <= k
          IN SubSeq(text, 1, i - 1) \o replacement
             \o SubSeq(text, i + Len(pattern), Len(text))

\* a property name
Key(word) == <<word>>

\* if (value)
Truthy(val) ==
  IF IsString(val) THEN val.v # <<>>
  ELSE IF IsObject(val) THEN TRUE
  ELSE val.v[1] \in {"true", "1"}

\* if (obj.key), also when obj is a string or a number
HasTruthy(obj, word) ==
  IsObject(obj) /\ HasKey(obj, Key(word)) /\ Truthy(Get(obj, Key(word)))

ProxyBase(frontendUrl, instance, route) ==
  frontendUrl \o <<"/", "atx", "/", instance, "/", route>>

\* 1. storePages: new URL(permalink) is in no try block of its own, so a
\* permalink that is no URL makes the whole transformation throw
RECURSIVE StorePages(_, _, _)
StorePages(pages, m, frontendUrl) ==
  IF m > Len(pages.v) THEN [ok |-> TRUE, val |-> pages]
  ELSE IF HasTruthy(pages.v[m].val, "permalink")
  THEN LET url == NewUrl(Get(pages.v[m].val, Key("permalink")))
       IN IF ~url.ok THEN [ok |-> FALSE, val |-> pages]
          ELSE StorePages(
                 Put(pages, pages.v[m].k,
                     Put(pages.v[m].val, Key("permalink"),
                         JsonString(frontendUrl \o url.pathname))),
                 m + 1, frontendUrl)
  ELSE StorePages(pages, m + 1, frontendUrl)

PutStorePages(t, pages) ==
  [ok |-> pages.ok, val |-> Put(t, Key("storePages"), pages.val)]

RewriteStorePages(t, frontendUrl) ==
  IF HasTruthy(t, "storePages") /\ IsObject(Get(t, Key("storePages")))
  THEN PutStorePages(t, StorePages(Get(t, Key("storePages")), 1,
                                   frontendUrl))
  ELSE [ok |-> TRUE, val |-> t]

\* 2. homeUrl
RewriteHomeUrl(t, frontendUrl) ==
  IF HasTruthy(t, "homeUrl") /\ IsString(Get(t, Key("homeUrl")))
  THEN Put(t, Key("homeUrl"), JsonString(frontendUrl))
  ELSE t

\* 3. dashboardUrl: on a URL that does not parse the origin is replaced by
\* pattern
DashboardUrl(val, frontendUrl) ==
  LET url == ParseUrlText(val.v)
  IN IF url.ok THEN JsonString(frontendUrl \o url.pathname)
     ELSE JsonString(ReplaceOrigin(val.v, frontendUrl))

RewriteDashboardUrl(t, frontendUrl) ==
  IF HasTruthy(t, "dashboardUrl") /\ IsString(Get(t, Key("dashboardUrl")))
  THEN Put(t, Key("dashboardUrl"),
           DashboardUrl(Get(t, Key("dashboardUrl")), frontendUrl))
  ELSE t

\* 4. pluginUrl and productImages: kept when new URL throws
AssetUrl(val, frontendUrl, instance) ==
  LET url == NewUrl(val)
  IN IF url.ok
     THEN JsonString(ProxyBase(frontendUrl, instance, "wp-assets")
                     \o url.pathname)
     ELSE val

ConfigAssetUrl(config, word, frontendUrl, instance) ==
  IF HasTruthy(config, word)
  THEN Put(config, Key(word),
           AssetUrl(Get(config, Key(word)), frontendUrl, instance))
  ELSE config

ConfigHomeUrl(config, frontendUrl) ==
  IF HasTruthy(config, "homeUrl")
  THEN Put(config, Key("homeUrl"), JsonString(frontendUrl))
  ELSE config

\* 4. restApiRoutes, an object or a literal: Object.entries
RECURSIVE RestApiRoutes(_, _, _, _, _)
RestApiRoutes(routes, m, newRoutes, frontendUrl, instance) ==
  IF ~IsObject(routes) \/ m > Len(routes.v) THEN newRoutes
  ELSE LET value == routes.v[m].val
       IN RestApiRoutes(routes, m + 1,
            Put(newRoutes, routes.v[m].k,
                IF IsString(value)
                THEN JsonString(
                       ProxyBase(frontendUrl, instance, "wp-json")
                       \o ReplaceFirst(ReplaceOrigin(value.v, <<>>),
                                       <<"/", "wp-json">>, <<>>))
                ELSE value),
            frontendUrl, instance)

ConfigRestApiRoutes(config, frontendUrl, instance) ==
  IF HasTruthy(config, "restApiRoutes")
  THEN Put(config, Key("restApiRoutes"),
           RestApiRoutes(Get(config, Key("restApiRoutes")), 1,
                         JsonObject(<<>>), frontendUrl, instance))
  ELSE config

WcBlocksConfig(config, frontendUrl, instance) ==
  ConfigRestApiRoutes(
    ConfigHomeUrl(
      ConfigAssetUrl(
        ConfigAssetUrl(config, "pluginUrl", frontendUrl, instance),
        "productImages", frontendUrl, instance),
      frontendUrl),
    frontendUrl, instance)

RewriteWcBlocksConfig(t, frontendUrl, instance) ==
  IF HasTruthy(t, "wcBlocksConfig")
  THEN Put(t, Key("wcBlocksConfig"),
           WcBlocksConfig(Get(t, Key("wcBlocksConfig")), frontendUrl,
                          instance))
  ELSE t

\* 5. stripe_return_url and stripe_checkout_url: kept when new URL throws
StripeUrlValue(val, frontendUrl) ==
  LET url == NewUrl(val)
  IN IF url.ok THEN JsonString(frontendUrl \o url.pathname \o url.search)
     ELSE val

StripeSettingUrl(settings, word, frontendUrl) ==
  IF HasTruthy(settings, word)
  THEN Put(settings, Key(word),
           StripeUrlValue(Get(settings, Key(word)), frontendUrl))
  ELSE settings

StripeSettings(settings, frontendUrl) ==
  StripeSettingUrl(StripeSettingUrl(settings, "stripe_return_url", frontendUrl),
             "stripe_checkout_url", frontendUrl)

RewriteStripeSettings(t, frontendUrl) ==
  IF HasTruthy(t, "stripe_settings")
  THEN Put(t, Key("stripe_settings"),
           StripeSettings(Get(t, Key("stripe_settings")), frontendUrl))
  ELSE t

\* 6. wpLoginUrl, when the option asks for it
RewriteLoginUrl(t, frontendUrl, rewriteLoginUrl) ==
  IF rewriteLoginUrl /\ HasTruthy(t, "wpLoginUrl")
  THEN Put(t, Key("wpLoginUrl"), JsonString(frontendUrl \o <<"/", "login">>))
  ELSE t

\* steps 2 to 6, when step 1 did not throw
RewriteRest(pages, frontendUrl, instance, rewriteLoginUrl) ==
  IF ~pages.ok THEN [ok |-> FALSE, val |-> pages.val]
  ELSE [ok |-> TRUE,
        val |-> RewriteLoginUrl(
                  RewriteStripeSettings(
                    RewriteWcBlocksConfig(
                      RewriteDashboardUrl(
                        RewriteHomeUrl(pages.val, frontendUrl),
                        frontendUrl),
                      frontendUrl, instance),
                    frontendUrl),
                  frontendUrl, rewriteLoginUrl)]

\* the statements between decodeWcSettings and encodeWcSettings; ok is FALSE
\* when one of them throws (a property of null cannot be read)
Rewrite(target, frontendUrl, instance, rewriteLoginUrl) ==
  IF IsNull(target) THEN [ok |-> FALSE, val |-> target]
  ELSE RewriteRest(
         RewriteStorePages(JsonParse(JsonStringify(target)).val,
                           frontendUrl),
         frontendUrl, instance, rewriteLoginUrl)

\* a function without the catch block: what is thrown inside leaves it
CaughtNever(failed) == failed

\* catch (e) { console.error(...); return beforeScript; }: whether the
\* exception of a failed stage leaves the function
Caught(failed) == FALSE

\* return encodeWcSettings(beforeScript, encodedString, transformed)
EncodeTransformed(beforeScript, encodedString, transformed) ==
  IF transformed.ok
  THEN encodeWcSettings(beforeScript, encodedString, transformed.val)
  ELSE [ok |-> FALSE, text |-> <<>>]

\* the body of the try block
TryBlock(beforeScript, decodedSettings, frontendUrl, instance, rewriteLoginUrl) ==
  IF decodedSettings.ok
  THEN EncodeTransformed(beforeScript, decodedSettings.encodedString,
                         Rewrite(decodedSettings.target, frontendUrl,
                                 instance, rewriteLoginUrl))
  ELSE [ok |-> FALSE, text |-> <<>>]

\* what the call returns for the result of its try block
Outcome(beforeScript, result) ==
  [failed |-> ~result.ok,
   threw |-> Caught(~result.ok),
   text |-> IF result.ok THEN result.text ELSE beforeScript]

\* one call of transformWcSettings: whether a stage failed, whether the call
\* threw, and what it returned
TransformRun(beforeScript, frontendUrl, instance, rewriteLoginUrl) ==
  Outcome(beforeScript,
          TryBlock(beforeScript, decodeWcSettings(beforeScript),
                   frontendUrl, instance, rewriteLoginUrl))

transformWcSettings(beforeScript, frontendUrl, instance, rewriteLoginUrl) ==
  TransformRun(beforeScript, frontendUrl, instance, rewriteLoginUrl).text

(***************************************************************************)
(* The src of a script element, on the text of the URL                     *)
(***************************************************************************)
\* extractPath(url): the pathname, or the text itself when new URL throws
extractPathText(url) ==
  LET urlObj == ParseUrlText(url)
  IN IF urlObj.ok THEN urlObj.pathname ELSE url

\* the route test of a loader that takes /wp-includes/ only
isInternalRouteIncludesOnly(path) ==
  /\ Len(path) >= 3
  /\ path[1] = "/"
  /\ path[2] = "wp-includes"
  /\ path[3] = "/"

\* /^\/wp-(?:includes|admin)\//.test(path)
isInternalRouteText(path) ==
  /\ Len(path) >= 3
  /\ path[1] = "/"
  /\ path[2] \in {"wp-includes", "wp-admin"}
  /\ path[3] = "/"

\* `/atx/${instance}/wp-internal-assets${path}` or
\* `/atx/${instance}/wp-assets${path}`
ProxyPath(path, instance) ==
  IF isInternalRouteText(path)
  THEN ProxyBase(<<>>, instance, "wp-internal-assets") \o path
  ELSE ProxyBase(<<>>, instance, "wp-assets") \o path

\* an origin test whose catch returns true
isExternalScriptCatchTrue(scriptUrl, backendUrl) ==
  \/ ~ParseUrlText(scriptUrl).ok
  \/ ~ParseUrlText(backendUrl).ok
  \/ ParseUrlText(scriptUrl).origin # ParseUrlText(backendUrl).origin

\* isExternalScript(scriptUrl, backendUrl) on the texts of the URLs
isExternalScriptText(scriptUrl, backendUrl) ==
  /\ ParseUrlText(scriptUrl).ok
  /\ ParseUrlText(backendUrl).ok
  /\ ParseUrlText(scriptUrl).origin # ParseUrlText(backendUrl).origin

\* the src HeadScripts gives the element, and the src BodyScripts gives it
\* for the backend URL it resolved (<<>> when it resolved none)
SrcOf(kind, url, backendUrl, instance) ==
  IF kind = "body" /\ backendUrl # <<>>
     /\ isExternalScriptText(url, backendUrl)
  THEN [proxied |-> FALSE, src |-> url]
  ELSE [proxied |-> TRUE, src |-> ProxyPath(extractPathText(url), instance)]

(***************************************************************************)
(* proxyByWCR, on the path of the request                                  *)
(***************************************************************************)
\* nextPath.match(/^\/atx\/[^/]+\/{route}\//)
RouteMatch(nextPath, route) ==
  /\ Len(nextPath) >= 7
  /\ SubSeq(nextPath, 1, 3) = <<"/", "atx", "/">>
  /\ nextPath[4] \notin {"/", Backslash}
  /\ SubSeq(nextPath, 5, 7) = <<"/", route, "/">>

\* nextPath.replace(/^\/atx\/[^/]+\/{route}\/(.*)/, `${base}/$1`)
ReplaceRoute(nextPath, base) ==
  base \o <<"/">> \o SubSeq(nextPath, 8, Len(nextPath))

\* the asset handlers of proxyByWCR: the URL the request is rewritten to,
\* or no rewrite for a path that is no asset route
proxyByWCR(nextPath, instance) ==
  IF RouteMatch(nextPath, "wp-internal-assets")
  THEN [rewritten |-> TRUE,
        url |-> ReplaceRoute(nextPath, instance.wpSiteUrl)]
  ELSE IF RouteMatch(nextPath, "wp-assets")
  THEN [rewritten |-> TRUE,
        url |-> ReplaceRoute(nextPath, instance.wpHomeUrl)]
  ELSE [rewritten |-> FALSE, url |-> <<>>]

(***************************************************************************)
(* The asset URLs the loaders are given                                    *)
(***************************************************************************)
WpOriginText == <<"https", ":", "/", "/", "wp.example.com">>
CdnOriginText == <<"https", ":", "/", "/", "shop.example.com">>

\* one more segment of a path, with the separator before it
PathUnits ==
  {<<"/", "wp-includes">>, <<"/", "wp-admin">>, <<"/", "wp-content">>,
   <<"/", "a.js">>, <<"/", "..">>, <<"/", "a", Space, "b.js">>,
   <<Backslash, "wp-includes">>, <<"/">>}

\* ?ver=1
VersionQuery == <<"?", "ver", "=", "1">>

Instances == {Instance, "shop"}

\* WordPress installed in the directory /blog of its host
BlogSiteText == WpOriginText \o <<"/", "blog">>

\* the instances getWPInstance knows: WordPress at the root of its host, and
\* WordPress in a directory
WPInstances ==
  {[wpHomeUrl |-> WpOriginText, wpSiteUrl |-> WpOriginText],
   [wpHomeUrl |-> BlogSiteText, wpSiteUrl |-> BlogSiteText]}

\* what getBackendUrl gave BodyScripts: nothing (the request failed), the
\* URL of the WordPress site, or a text that is no URL (decoded with another
\* salt than the proxy's)
BackendUrls == {<<>>, WpOriginText \o <<"/">>, <<"wp.example.com">>}

\* the path of a URL text as it is written: from the end of the host to the
\* query
OriginalPath(url) ==
  SubSeq(url, 6, FirstOf(url, {"?", "#"}, 6) - 1)

(***************************************************************************)
(* The scripts the settings transform is given                             *)
(***************************************************************************)
\* what a string of the payload is made of
PayloadLexemes ==
  {"a", "n", Apostrophe, Quote, Backslash, Newline, "(", Percent}

WpOrigin == <<"https", ":", "/", "/", "wp.example.com">>
FrontendUrl == <<"https", ":", "/", "/", "shop.example.com">>

CartUrl == WpOrigin \o <<"/", "cart", "/">>
ReturnUrl ==
  WpOrigin \o <<"/", "checkout", "/", "?", "key", "=", "1", "&", "a", "=", "b">>
DashboardUrlText == WpOrigin \o <<"/", "my-account", "/", "?", "tab", "=", "1">>
PluginUrl == WpOrigin \o <<"/", "wp-content", "/", "plugins", "/", "wc", "/">>
RestRouteUrl == WpOrigin \o <<"/", "wp-json", "/", "wc", "/", "store">>
LoginUrl == WpOrigin \o <<"/", "wp-login.php">>
\* no URL, and no match of ^https?://
NoUrl == <<"cart", Space, "page">>
\* no URL (a space in the host), but a match of ^https?://
BadHostUrl ==
  <<"https", ":", "/", "/", "wp", Space, "example.com", "/", "my-account">>

\* the members a payload has for one choice of its URLs; "" leaves the
\* member out
StorePagesOf(url) ==
  IF url = <<>> THEN <<>>
  ELSE <<Member(Key("storePages"),
           JsonObject(<<Member(Key("cart"),
             JsonObject(<<Member(Key("permalink"), JsonString(url))>>))>>))>>

StringMember(word, url) ==
  IF url = <<>> THEN <<>> ELSE <<Member(Key(word), JsonString(url))>>

WcBlocksConfigOf(url) ==
  IF url = <<>> THEN <<>>
  ELSE <<Member(Key("wcBlocksConfig"),
           JsonObject(<<Member(Key("pluginUrl"), JsonString(url)),
                        Member(Key("restApiRoutes"),
                          JsonObject(<<Member(Key("store"),
                                         JsonString(RestRouteUrl))>>))>>))>>

StripeSettingsOf(url) ==
  IF url = <<>> THEN <<>>
  ELSE <<Member(Key("stripe_settings"),
           JsonObject(<<Member(Key("stripe_return_url"),
                               JsonString(url))>>))>>

\* the wcSettings objects of the shop
SettingsPayloads ==
  {JsonObject(StorePagesOf(cart)
              \o StringMember("homeUrl", home)
              \o StringMember("dashboardUrl", dashboard)
              \o WcBlocksConfigOf(plugin)
              \o StripeSettingsOf(stripe)
              \o StringMember("wpLoginUrl", login)) :
     cart \in {<<>>, CartUrl, NoUrl},
     home \in {<<>>, WpOrigin},
     dashboard \in {<<>>, DashboardUrlText, BadHostUrl},
     plugin \in {<<>>, PluginUrl, NoUrl},
     stripe \in {<<>>, ReturnUrl, NoUrl},
     login \in {<<>>, LoginUrl}}

\* payloads with one free string of at most n lexemes
NotePayloads(n) ==
  {JsonObject(<<Member(Key("note"), JsonString(text))>>) :
     text \in UNION {[1..k -> PayloadLexemes] : k \in 0..n}}

\* payloads that are no object
ScalarPayloads == {JsonNull, JsonLiteral("true"), JsonString(<<"a">>)}

\* the payloads that also come in damaged scripts and other envelopes
BasePayloads ==
  ScalarPayloads \cup
  {JsonObject(StorePagesOf(CartUrl) \o WcBlocksConfigOf(PluginUrl)),
   JsonObject(StorePagesOf(NoUrl) \o StringMember("homeUrl", WpOrigin)),
   JsonObject(<<Member(Key("note"), JsonString(<<"a", Apostrophe>>))>>)}

Payloads(n) == SettingsPayloads \cup NotePayloads(n) \cup ScalarPayloads

\* the encoded text of the origin: esc_js( rawurlencode( wp_json_encode(
\* data ) ) ), rawurlencode of PHP encoding every reserved character
OriginEncoded(payload) ==
  LET json == JsonStringify(payload)
  IN esc_js([k \in 1..Len(json) |-> EncodeLexemeRfc3986(json[k])])

\* what takes the place of the encoded text in a damaged script: a percent
\* sign that starts no escape, a JSON text cut short, nothing
Damaged(damage, encodedText) ==
  CASE damage = "none" -> encodedText
    [] damage = "percent" -> encodedText \o <<Percent>>
    [] damage = "json" -> SubSeq(encodedText, 1, Len(encodedText) - 1)
    [] damage = "empty" -> <<>>

Damages == {"none", "percent", "json", "empty"}

\* the envelope of the origin, var wcSettings = JSON.parse(
\* decodeURIComponent( '...' ) );, and envelopes that differ from it: quotes
\* for apostrophes, no variable declaration, no decodeURIComponent call
Envelope(envelope, encodedText) ==
  CASE envelope = "origin" ->
         <<"var", Space, "wcSettings", Space, "=", Space, "JSON.parse", "(",
           Space, "decodeURIComponent", "(", Space, Apostrophe>>
         \o encodedText \o <<Apostrophe, Space, ")", Space, ")", ";">>
    [] envelope = "quotes" ->
         <<"var", Space, "wcSettings", "=", "JSON.parse", "(",
           "decodeURIComponent", "(", Quote>>
         \o encodedText \o <<Quote, ")", ")", ";">>
    [] envelope = "assignment" ->
         <<"window.wcSettings", Space, "=", Space, "JSON.parse", "(",
           Space, "decodeURIComponent", "(", Space, Apostrophe>>
         \o encodedText \o <<Apostrophe, Space, ")", Space, ")", ";">>
    [] envelope = "literal" ->
         <<"var", Space, "wcSettings", Space, "=", Space, "JSON.parse", "(",
           Space, Apostrophe>>
         \o encodedText \o <<Apostrophe, Space, ")", ";">>

Envelopes == {"origin", "quotes", "assignment", "literal"}

(***************************************************************************)
(* State                                                                   *)
(***************************************************************************)
VARIABLES
  scripts,        \* the list handed to sortScriptsByDependencies
  sortedScripts,  \* what it returned
  warned,         \* whether console.warn was called
  sortedAgain,    \* what it returned when called on sortedScripts
  sortPc,         \* "input" while the list is assembled, "sorted" after
                  \* the call, "resorted" after the call on its output
  page,           \* the props the page gives its loaders: scripts, waitFor
  loaders,        \* the HeadScripts and BodyScripts instances mounted so far
  LoadCache,      \* the module-level Set of each of the two components
  BackendUrlCache,    \* the module-level Map of BodyScripts, by instance
  document,       \* the elements appended by each loader, in order
  headScriptsLoaded,  \* ScriptLoader state, wired to waitFor
  bodyScriptsLoaded,  \* ScriptLoader state
  wcSettingsProcessed,    \* whether processWcSettings has been called
  data,           \* the text the proxy hands to encodeWithSalt
  salt,           \* the salt of the proxy and of BodyScripts
  encoded,        \* the d field of the proxy's answer
  decoded,        \* what decodeWithSalt made of it
  codecPc,        \* "input", "encoded", "decoded"
  wcInput,        \* the payload, envelope and damage beforeScript is made of
  beforeScript,   \* the before fragment of the wc-settings script
  wcOutput,       \* what the call made of it
  wcPc,           \* "input", "reencoded", "redecoded", "transformed"
  assetUrl,       \* the src of a descriptor: origin (with the directory
                  \* of the site, if any), path units, query
  srcOut,         \* the loader and the src it gave the script element,
                  \* then also what the proxy made of the request for it
  srcPc,          \* "input", "rewritten", "proxied"
  retriggered     \* whether the effect of a started loader has run again

sortVars == <<scripts, sortedScripts, sortedAgain, warned, sortPc>>

codecVars == <<data, salt, encoded, decoded, codecPc>>

settingsVars == <<wcInput, beforeScript, wcOutput, wcPc>>

srcVars == <<assetUrl, srcOut, srcPc>>

strictVars == <<retriggered>>

loaderVars == <<page, loaders, LoadCache, BackendUrlCache, document,
                headScriptsLoaded, bodyScriptsLoaded, wcSettingsProcessed>>

vars == <<scripts, sortedScripts, sortedAgain, warned, sortPc, page, loaders, LoadCache,
          BackendUrlCache, document, headScriptsLoaded, bodyScriptsLoaded,
          wcSettingsProcessed, data, salt, encoded, decoded, codecPc,
          wcInput, beforeScript, wcOutput, wcPc, assetUrl, srcOut, srcPc,
          retriggered>>

\* the state at module load, before any component mounts
LoaderStart ==
  /\ loaders = <<>>
  /\ LoadCache = [head |-> {}, body |-> {}]
  /\ BackendUrlCache = [inst \in {Instance} |-> ""]
  /\ document = <<>>
  /\ headScriptsLoaded = FALSE
  /\ bodyScriptsLoaded = FALSE
  /\ wcSettingsProcessed = FALSE
  /\ retriggered = FALSE

CodecStart ==
  /\ data = <<>>
  /\ salt = <<>>
  /\ encoded = <<>>
  /\ decoded = <<>>
  /\ codecPc = "input"

NoOutput == [ok |-> FALSE, failed |-> FALSE, threw |-> FALSE, text |-> <<>>]

SettingsStart ==
  /\ wcInput = [payload |-> JsonNull, envelope |-> "origin",
                damage |-> "empty"]
  /\ beforeScript = <<>>
  /\ wcOutput = NoOutput
  /\ wcPc = "input"

NoSrcOut == [kind |-> "head", backendUrl |-> <<>>, instance |-> Instance,
             proxied |-> FALSE, src |-> <<>>]

SrcStart ==
  /\ assetUrl = [origin |-> WpOriginText, units |-> <<>>, query |-> <<>>]
  /\ srcOut = NoSrcOut
  /\ srcPc = "input"

SortStart ==
  /\ scripts = <<>>
  /\ sortedScripts = <<>>
  /\ sortedAgain = <<>>
  /\ warned = FALSE
  /\ sortPc = "input"

(***************************************************************************)
(* The resolver applied to every bounded list                              *)
(***************************************************************************)
TotalEdges(list) ==
  LET RECURSIVE Sum(_)
      Sum(i) == IF i > Len(list) THEN 0
                ELSE Len(list[i].dependencies) + Sum(i + 1)
  IN Sum(1)

SortInit ==
  /\ SortStart
  /\ page = [scripts |-> <<>>, waitFor |-> "always"]
  /\ LoaderStart
  /\ SrcStart
  /\ CodecStart
  /\ SettingsStart

\* handles are opaque to the resolver, so the lists name them in order of
\* first appearance: the next handle of a list is one it has already or the
\* first unused one of a, b, c
NextHandles(list) ==
  LET used == {list[i].handle : i \in 1..Len(list)} \ {NoHandle}
      fresh == IF "a" \notin used THEN {"a"}
               ELSE IF "b" \notin used THEN {"b"}
               ELSE IF "c" \notin used THEN {"c"} ELSE {}
  IN used \cup fresh \cup {NoHandle}

\* one more descriptor arrives from the asset query
Enqueue ==
  /\ sortPc = "input"
  /\ Len(scripts) < MaxScripts
  /\ \E handle \in NextHandles(scripts) :
       scripts' = Append(scripts,
         EnqueuedScript(NoId, handle, NoSrc, <<>>, "HEADER",
                        FALSE, FALSE, FALSE))
  /\ UNCHANGED <<sortedScripts, sortedAgain, warned, sortPc>>
  /\ UNCHANGED <<loaderVars, codecVars, settingsVars, srcVars, strictVars>>

\* the descriptor that arrived last declares one more dependency
AddDependency ==
  /\ sortPc = "input"
  /\ scripts # <<>>
  /\ TotalEdges(scripts) < MaxEdges
  /\ \E dep \in DepNames :
       scripts' = [scripts EXCEPT ![Len(scripts)].dependencies =
                                    Append(@, dep)]
  /\ UNCHANGED <<sortedScripts, sortedAgain, warned, sortPc>>
  /\ UNCHANGED <<loaderVars, codecVars, settingsVars, srcVars, strictVars>>

\* the call sortScriptsByDependencies(scripts)
Resolve ==
  /\ sortPc = "input"
  /\ LET run == SortRun(scripts)
     IN /\ sortedScripts' = run.sorted
        /\ warned' = run.warned
  /\ sortPc' = "sorted"
  /\ UNCHANGED <<scripts, sortedAgain>>
  /\ UNCHANGED <<loaderVars, codecVars, settingsVars, srcVars, strictVars>>

\* the caller hands the list it got back to sortScriptsByDependencies again
ResolveAgain ==
  /\ sortPc = "sorted"
  /\ sortedAgain' = sortScriptsByDependencies(sortedScripts)
  /\ sortPc' = "resorted"
  /\ UNCHANGED <<scripts, sortedScripts, warned>>
  /\ UNCHANGED <<loaderVars, codecVars, settingsVars, srcVars, strictVars>>

SortNext == Enqueue \/ AddDependency \/ Resolve \/ ResolveAgain

SortSpec == SortInit /\ [][SortNext]_vars

(***************************************************************************)
(* The origin encoder applied to every bounded text and salt               *)
(***************************************************************************)
\* the strings of at most n code units
Strings(units, n) == UNION {[1..k -> units] : k \in 0..n}

CodecInit ==
  /\ SortStart
  /\ page = [scripts |-> <<>>, waitFor |-> "always"]
  /\ LoaderStart
  /\ SrcStart
  /\ data \in Strings(CodeUnits, MaxText)
  /\ salt \in Strings(SaltUnits, MaxSalt) \ {<<>>}
  /\ encoded = <<>>
  /\ decoded = <<>>
  /\ codecPc = "input"
  /\ SettingsStart

\* the proxy answers POST /atx/{instance}/proxiee
Encode ==
  /\ codecPc = "input"
  /\ encoded' = encodeWithSalt(data, salt)
  /\ codecPc' = "encoded"
  /\ UNCHANGED <<data, salt, decoded>>
  /\ UNCHANGED <<sortVars, loaderVars, settingsVars, srcVars, strictVars>>

\* getBackendUrl decodes the d field of the answer
Decode ==
  /\ codecPc = "encoded"
  /\ decoded' = decodeWithSalt(encoded, salt)
  /\ codecPc' = "decoded"
  /\ UNCHANGED <<data, salt, encoded>>
  /\ UNCHANGED <<sortVars, loaderVars, settingsVars, srcVars, strictVars>>

CodecNext == Encode \/ Decode

CodecSpec == CodecInit /\ [][CodecNext]_vars

(***************************************************************************)
(* The settings transform applied to every script of the bounds            *)
(***************************************************************************)
SettingsInit ==
  /\ SortStart
  /\ page = [scripts |-> <<>>, waitFor |-> "always"]
  /\ LoaderStart
  /\ SrcStart
  /\ CodecStart
  /\ wcInput \in [payload : Payloads(MaxValue), envelope : {"origin"},
                   damage : {"none"}]
                  \cup [payload : BasePayloads, envelope : Envelopes,
                        damage : Damages]
  /\ beforeScript =
       Envelope(wcInput.envelope,
                Damaged(wcInput.damage, OriginEncoded(wcInput.payload)))
  /\ wcOutput = NoOutput
  /\ wcPc = "input"

\* encodeWcSettings of the payload as it was decoded
ReencodeDecoded(script, decodedSettings) ==
  IF decodedSettings.ok
  THEN encodeWcSettings(script, decodedSettings.encodedString,
                        decodedSettings.target)
  ELSE [ok |-> FALSE, text |-> <<>>]

ReencodeOutput(result) ==
  [ok |-> result.ok, failed |-> ~result.ok, threw |-> ~result.ok,
   text |-> result.text]

\* decodeWcSettings, then encodeWcSettings of the payload as it was decoded
Reencode ==
  /\ wcPc = "input"
  /\ wcOutput' = ReencodeOutput(
                   ReencodeDecoded(beforeScript,
                                   decodeWcSettings(beforeScript)))
  /\ wcPc' = "reencoded"
  /\ UNCHANGED <<wcInput, beforeScript>>
  /\ UNCHANGED <<sortVars, loaderVars, codecVars, srcVars, strictVars>>

RedecodeOutput(text, decodedSettings) ==
  [ok |-> decodedSettings.ok, failed |-> ~decodedSettings.ok,
   threw |-> ~decodedSettings.ok, text |-> text,
   target |-> decodedSettings.target]

\* decodeWcSettings of the script encodeWcSettings returned
Redecode ==
  /\ wcPc = "reencoded"
  /\ wcOutput.ok
  /\ wcOutput' = RedecodeOutput(wcOutput.text,
                                decodeWcSettings(wcOutput.text))
  /\ wcPc' = "redecoded"
  /\ UNCHANGED <<wcInput, beforeScript>>
  /\ UNCHANGED <<sortVars, loaderVars, codecVars, srcVars, strictVars>>

TransformOutput(run) ==
  [ok |-> ~run.threw, failed |-> run.failed, threw |-> run.threw,
   text |-> run.text]

\* the loader's caller hands the fragment to transformWcSettings
Transform(rewriteLoginUrl) ==
  /\ wcPc = "input"
  /\ wcOutput' = TransformOutput(
                   TransformRun(beforeScript, FrontendUrl, Instance,
                                rewriteLoginUrl))
  /\ wcPc' = "transformed"
  /\ UNCHANGED <<wcInput, beforeScript>>
  /\ UNCHANGED <<sortVars, loaderVars, codecVars, srcVars, strictVars>>

SettingsNext ==
  \/ Reencode
  \/ Redecode
  \/ \E rewriteLoginUrl \in BOOLEAN : Transform(rewriteLoginUrl)

SettingsSpec == SettingsInit /\ [][SettingsNext]_vars

(***************************************************************************)
(* The src rewrite applied to every asset URL of the bounds                *)
(***************************************************************************)
\* the text of the URL
AssetText(url) ==
  url.origin \o Join(url.units, 1, Len(url.units)) \o url.query

SrcInit ==
  /\ SortStart
  /\ page = [scripts |-> <<>>, waitFor |-> "always"]
  /\ LoaderStart
  /\ CodecStart
  /\ SettingsStart
  /\ assetUrl \in {[origin |-> WpOriginText, units |-> <<>>, query |-> <<>>],
                   [origin |-> WpOriginText, units |-> <<>>,
                    query |-> VersionQuery],
                   [origin |-> CdnOriginText, units |-> <<>>,
                    query |-> VersionQuery],
                   [origin |-> <<>>, units |-> <<>>, query |-> <<>>],
                   [origin |-> BlogSiteText, units |-> <<>>,
                    query |-> VersionQuery]}
  /\ srcOut = NoSrcOut
  /\ srcPc = "input"

\* the URL, or the path a script is enqueued with in place of a URL, gets
\* one more segment
AddSegment ==
  /\ srcPc = "input"
  /\ Len(assetUrl.units) < MaxSegments
  /\ \E unit \in PathUnits :
       assetUrl' = [assetUrl EXCEPT !.units = Append(@, unit)]
  /\ UNCHANGED <<srcOut, srcPc>>
  /\ UNCHANGED <<sortVars, loaderVars, codecVars, settingsVars, strictVars>>

\* HeadScripts computes the src of the element of a script that has one
HeadSrc(instance) ==
  /\ srcPc = "input"
  /\ AssetText(assetUrl) # <<>>
  /\ srcOut' = [kind |-> "head", backendUrl |-> <<>>, instance |-> instance]
               @@ SrcOf("head", AssetText(assetUrl), <<>>, instance)
  /\ srcPc' = "rewritten"
  /\ UNCHANGED assetUrl
  /\ UNCHANGED <<sortVars, loaderVars, codecVars, settingsVars, strictVars>>

\* BodyScripts computes the src of the element of a script that has one,
\* with the backend URL it resolved or with none
BodySrc(backendUrl) ==
  /\ srcPc = "input"
  /\ AssetText(assetUrl) # <<>>
  /\ srcOut' = [kind |-> "body", backendUrl |-> backendUrl,
                instance |-> Instance]
               @@ SrcOf("body", AssetText(assetUrl), backendUrl, Instance)
  /\ srcPc' = "rewritten"
  /\ UNCHANGED assetUrl
  /\ UNCHANGED <<sortVars, loaderVars, codecVars, settingsVars, strictVars>>

\* the browser requests the src the loader gave the element, and the
\* middleware of the frontend hands the request to proxyByWCR
Proxy(instance) ==
  /\ srcPc = "rewritten"
  /\ srcOut.proxied
  /\ srcOut' = [wp |-> instance,
                target |-> proxyByWCR(srcOut.src, instance)] @@ srcOut
  /\ srcPc' = "proxied"
  /\ UNCHANGED assetUrl
  /\ UNCHANGED <<sortVars, loaderVars, codecVars, settingsVars, strictVars>>

SrcNext ==
  \/ AddSegment
  \/ \E instance \in Instances : HeadSrc(instance)
  \/ \E backendUrl \in BackendUrls : BodySrc(backendUrl)
  \/ \E instance \in WPInstances : Proxy(instance)

SrcSpec == SrcInit /\ [][SrcNext]_vars

(***************************************************************************)
(* The loaders of one page                                                 *)
(***************************************************************************)
Init ==
  /\ SortStart
  /\ page \in [scripts : PageLists(MaxPage), waitFor : {"wired", "always"}]
  /\ LoaderStart
  /\ SrcStart
  /\ CodecStart
  /\ SettingsStart

\* the result of a loadNextScript chain of loader i becomes the new state;
\* an onComplete call in it reaches the ScriptLoader state
Commit(i, base, res) ==
  LET L == base[i]
      completed == res.loader.completions > L.completions
  IN /\ headScriptsLoaded' =
          (headScriptsLoaded \/ (L.kind = "head" /\ completed))
     /\ bodyScriptsLoaded' =
          (bodyScriptsLoaded \/ (L.kind = "body" /\ completed))
     /\ loaders' = [base EXCEPT ![i] = res.loader]
     /\ LoadCache' = [LoadCache EXCEPT ![L.kind] = res.cache]
     /\ document' = [j \in 1..Len(base) |->
                       IF j = i THEN res.doc
                       ELSE IF j <= Len(document) THEN document[j] ELSE <<>>]
     /\ wcSettingsProcessed' = res.wc

\* a run of the same list by a loader sharing the LoadCache reached Done
Replayed(kind, list) ==
  \E j \in 1..Len(loaders) :
    /\ loaders[j].kind = kind
    /\ loaders[j].phase = "done"
    /\ loaders[j].scripts = list

\* the value of the waitFor prop of BodyScripts: the page passes a constant
\* or wires it to the ScriptLoader state
WaitFor ==
  \/ page.waitFor = "always"
  \/ page.waitFor = "wired" /\ headScriptsLoaded

\* a getBackendUrl that never finds the instance in the cache
CacheHasNever(cache, instance) == FALSE

\* BackendUrlCache.has(instance)
CacheHas(cache, instance) == cache[instance] # ""

\* an effect without the latch
LatchedNever(L) == FALSE

\* if (hasLoadedRef.current) return
Latched(L) == L.hasLoadedRef

\* the useEffect callback of loader i, whose record is base[i]
RunEffect(i, base) ==
  LET L == base[i]
      filtered == FilterLocation(page.scripts, L.kind)
      S == [L EXCEPT !.hasLoadedRef = TRUE,
                     !.scripts = page.scripts,
                     !.replay = Replayed(L.kind, page.scripts),
                     !.sortedScripts = sortScriptsByDependencies(filtered)]
  IN IF Gated(L.kind, WaitFor) \/ Latched(L)
     THEN /\ loaders' = base
          /\ document' = [j \in 1..Len(base) |->
                            IF j <= Len(document) THEN document[j] ELSE <<>>]
          /\ UNCHANGED <<LoadCache, headScriptsLoaded,
                         bodyScriptsLoaded, wcSettingsProcessed>>
     ELSE IF L.kind = "head" \/ filtered = <<>>
     THEN Commit(i, base, loadNextScript(i, S, LoadCache[L.kind], <<>>,
                                         wcSettingsProcessed))
     ELSE /\ loaders' =
               [base EXCEPT ![i] =
                  [S EXCEPT !.phase = "resolving",
                            !.fetching =
                              ~CacheHas(BackendUrlCache, Instance)]]
          /\ document' = [j \in 1..Len(base) |->
                            IF j <= Len(document) THEN document[j] ELSE <<>>]
          /\ UNCHANGED <<LoadCache, headScriptsLoaded,
                         bodyScriptsLoaded, wcSettingsProcessed>>

\* a HeadScripts or BodyScripts component mounts and its effect runs; the
\* page renders one of each, so an earlier instance of the kind has unmounted
\* (the effect has no cleanup: nothing runs then, and the listeners on the
\* elements it appended stay)
Mount(kind) ==
  /\ Len(loaders) < MaxRuns
  /\ RunEffect(Len(loaders) + 1, Append(loaders, NewLoader(kind)))
  /\ UNCHANGED <<page, BackendUrlCache>>
  /\ UNCHANGED <<sortVars, codecVars, settingsVars, srcVars, strictVars>>

\* the latest instance of its kind is the mounted one
Mounted(i) ==
  \A j \in (i + 1)..Len(loaders) : loaders[j].kind # loaders[i].kind

\* a render of mounted loader i changed a dependency of the effect (waitFor,
\* a new onComplete closure) and the effect runs again
Effect(i) ==
  /\ Mounted(i)
  /\ RunEffect(i, loaders)
  /\ UNCHANGED <<page, BackendUrlCache>>
  /\ UNCHANGED <<sortVars, codecVars, settingsVars, srcVars, strictVars>>

\* the effect of mounted loader i, which has started, runs again: a render
\* with a new scripts array or onComplete closure, or the second invocation
\* of Strict Mode
Retrigger(i) ==
  /\ Mounted(i)
  /\ loaders[i].hasLoadedRef
  /\ RunEffect(i, loaders)
  /\ retriggered' = TRUE
  /\ UNCHANGED <<page, BackendUrlCache>>
  /\ UNCHANGED <<sortVars, codecVars, settingsVars, srcVars>>

\* getBackendUrl found the instance in BackendUrlCache
OriginCached(i) ==
  LET L == loaders[i]
      R == [L EXCEPT !.backendUrl = BackendUrlCache[Instance]]
  IN /\ L.phase = "resolving"
     /\ ~L.fetching
     /\ Commit(i, loaders, loadNextScript(i, R, LoadCache[L.kind],
                                          document[i],
                                          wcSettingsProcessed))
     /\ UNCHANGED <<page, BackendUrlCache>>
     /\ UNCHANGED <<sortVars, codecVars, settingsVars, srcVars, strictVars>>

\* the fetch of /atx/{instance}/proxiee answered and was decoded
OriginResolved(i) ==
  LET L == loaders[i]
      R == [L EXCEPT !.backendUrl = BackendUrl, !.fetching = FALSE]
  IN /\ L.phase = "resolving"
     /\ L.fetching
     /\ BackendUrlCache' = [BackendUrlCache EXCEPT ![Instance] = BackendUrl]
     /\ Commit(i, loaders, loadNextScript(i, R, LoadCache[L.kind],
                                          document[i],
                                          wcSettingsProcessed))
     /\ UNCHANGED page
     /\ UNCHANGED <<sortVars, codecVars, settingsVars, srcVars, strictVars>>

\* a catch handler that logs the error and does not call loadNextScript
OriginFailedStops(i) ==
  /\ loaders[i].phase = "resolving"
  /\ loaders[i].fetching
  /\ loaders' = [loaders EXCEPT ![i].fetching = FALSE,
                                ![i].phase = "stalled"]
  /\ UNCHANGED <<page, LoadCache, BackendUrlCache, document,
                 headScriptsLoaded, bodyScriptsLoaded, wcSettingsProcessed>>
  /\ UNCHANGED <<sortVars, codecVars, settingsVars, srcVars, strictVars>>

\* the fetch failed or answered with an error status
OriginFailed(i) ==
  LET L == loaders[i]
      R == [L EXCEPT !.fetching = FALSE]
  IN /\ L.phase = "resolving"
     /\ L.fetching
     /\ Commit(i, loaders, loadNextScript(i, R, LoadCache[L.kind],
                                          document[i],
                                          wcSettingsProcessed))
     /\ UNCHANGED <<page, BackendUrlCache>>
     /\ UNCHANGED <<sortVars, codecVars, settingsVars, srcVars, strictVars>>

\* a load listener that does not record the key
OnLoadCacheForgets(cache, key) == cache

\* what the load listener adds before it calls loadNextScript
OnLoadCache(cache, key) == cache \cup {key}

\* an error listener that does not record the key
OnErrorCacheForgets(cache, key) == cache

\* what the error listener adds before it calls loadNextScript
OnErrorCache(cache, key) == cache \cup {key}

\* the load event of the pending script element e that loader i appended
ScriptLoad(i, e) ==
  LET el == document[i][e]
      doc1 == [document[i] EXCEPT ![e].state = "loaded"]
      doc2 == IF el.after
              THEN Append(doc1, Element(i, "after", el.key, NoSrc, "inline",
                                        FALSE))
              ELSE doc1
  IN /\ el.kind = "script"
     /\ el.state = "pending"
     /\ Commit(i, loaders,
               loadNextScript(i, loaders[i],
                              OnLoadCache(LoadCache[loaders[i].kind], el.key),
                              doc2, wcSettingsProcessed))
     /\ UNCHANGED <<page, BackendUrlCache>>
     /\ UNCHANGED <<sortVars, codecVars, settingsVars, srcVars, strictVars>>

\* the error event of the pending script element e that loader i appended
ScriptError(i, e) ==
  LET el == document[i][e]
      doc1 == [document[i] EXCEPT ![e].state = "failed"]
  IN /\ el.kind = "script"
     /\ el.state = "pending"
     /\ Commit(i, loaders,
               loadNextScript(i, loaders[i],
                              OnErrorCache(LoadCache[loaders[i].kind], el.key),
                              doc1, wcSettingsProcessed))
     /\ UNCHANGED <<page, BackendUrlCache>>
     /\ UNCHANGED <<sortVars, codecVars, settingsVars, srcVars, strictVars>>

Next ==
  \/ \E kind \in {"head", "body"} : Mount(kind)
  \/ \E i \in 1..Len(loaders) : Effect(i)
  \/ \E i \in 1..Len(loaders) : OriginCached(i)
  \/ \E i \in 1..Len(loaders) : OriginResolved(i)
  \/ \E i \in 1..Len(loaders) : OriginFailed(i)
  \/ \E i \in 1..Len(loaders) :
       \E e \in 1..Len(document[i]) : ScriptLoad(i, e)
  \/ \E i \in 1..Len(loaders) :
       \E e \in 1..Len(document[i]) : ScriptError(i, e)

Spec == Init /\ [][Next]_vars

(***************************************************************************)
(* The loaders of one page, with the events that are bound to happen       *)
(***************************************************************************)
\* the layouts of the documentation render <BodyScripts scripts={...} />
\* without waitFor: the prop is undefined ("unset")
LiveInit ==
  /\ SortStart
  /\ page \in [scripts : PageLists(MaxLivePage),
               waitFor : {"wired", "always", "unset"}]
  /\ LoaderStart
  /\ SrcStart
  /\ CodecStart
  /\ SettingsStart

\* React runs the effect of loader i again after a render that changed
\* waitFor
Rerun(i) == i \in 1..Len(loaders) /\ Effect(i)

\* the request of getBackendUrl settles
Settle(i) ==
  /\ i \in 1..Len(loaders)
  /\ (OriginCached(i) \/ OriginResolved(i) \/ OriginFailed(i))

\* the script element loader i attached fires load or error
Fire(i) ==
  /\ i \in 1..Len(loaders)
  /\ \E e \in 1..Len(document[i]) : ScriptLoad(i, e) \/ ScriptError(i, e)

Fairness ==
  \A i \in 1..MaxRuns :
    WF_vars(Rerun(i)) /\ WF_vars(Settle(i)) /\ WF_vars(Fire(i))

LiveSpec == LiveInit /\ [][Next]_vars /\ Fairness

(***************************************************************************)
(* The loaders of one page whose effects run more than once                *)
(***************************************************************************)
StrictNext ==
  \/ Next
  \/ \E i \in 1..Len(loaders) : Retrigger(i)

StrictSpec == LiveInit /\ [][StrictNext]_vars


(***************************************************************************)
(* The loaders of a layout that stays mounted across one navigation        *)
(***************************************************************************)
NavInit ==
  /\ SortStart
  /\ page \in [scripts : PageLists(MaxLivePage),
               waitFor : {"wired", "always"}, navigated : {FALSE}]
  /\ LoaderStart
  /\ SrcStart
  /\ CodecStart
  /\ SettingsStart

\* an inline HEADER script of another page: no id, no handle, no src, a
\* before fragment
OtherHeadInline ==
  EnqueuedScript(NoId, NoHandle, NoSrc, <<>>, "HEADER", FALSE, TRUE, FALSE)

\* the lists of the pages a navigation leads to
NavLists == PageLists(MaxLivePage) \cup {<<OtherHeadInline>>}

\* a client-side navigation: the layout renders its loaders again, the same
\* instances, with the scripts of the new page
Navigate ==
  /\ ~page.navigated
  /\ loaders # <<>>
  /\ \E list \in NavLists \ {page.scripts} :
       page' = [page EXCEPT !.scripts = list, !.navigated = TRUE]
  /\ UNCHANGED <<loaders, LoadCache, BackendUrlCache, document,
                 headScriptsLoaded, bodyScriptsLoaded, wcSettingsProcessed>>
  /\ UNCHANGED <<sortVars, codecVars, settingsVars, srcVars, strictVars>>

NavNext ==
  \/ Next
  \/ Navigate

NavSpec == NavInit /\ [][NavNext]_vars /\ Fairness

(***************************************************************************)
(* Properties of the resolver                                              *)
(***************************************************************************)
PresentHandles(list) == {list[i].handle : i \in 1..Len(list)} \ {NoHandle}

\* handle h lists d, and d is a handle of the list
DependsOn(list, h, d) ==
  /\ d \in PresentHandles(list)
  /\ \E i \in 1..Len(list) :
       list[i].handle = h /\ Includes(list[i].dependencies, d)

\* h depends on d through at most n references
RECURSIVE Reaches(_, _, _, _)
Reaches(list, h, d, n) ==
  /\ n > 0
  /\ \/ DependsOn(list, h, d)
     \/ \E m \in PresentHandles(list) :
          DependsOn(list, h, m) /\ Reaches(list, m, d, n - 1)

OnCycle(list, h) == Reaches(list, h, h, Cardinality(PresentHandles(list)))

Acyclic(list) == \A h \in PresentHandles(list) : ~OnCycle(list, h)

\* the AssetDescriptor invariant: a handle, when present, is unique
UniqueHandles(list) ==
  \A i, j \in 1..Len(list) :
    (HasHandle(list[i]) /\ list[i].handle = list[j].handle) => i = j

IsPermutation(out, in) ==
  /\ Len(out) = Len(in)
  /\ \A d \in Range(in) \cup Range(out) : Count(out, d) = Count(in, d)

\* position k of the output comes after all its present dependencies
AfterDependencies(out, list, k) ==
  \A d \in Range(out[k].dependencies) :
    IsEdge(list, d) => \E j \in 1..(k - 1) : out[j].handle = d

\* C1: when the dependency graph restricted to present handles is acyclic,
\* every descriptor of the returned list comes after each of its present
\* dependencies.
C1_DependenciesFirst ==
  (sortPc = "sorted" /\ Acyclic(scripts)) =>
    \A k \in 1..Len(sortedScripts) :
      AfterDependencies(sortedScripts, scripts, k)

\* an acyclic list that the resolver had to reorder, with a descriptor that
\* waits for two different dependencies
C1_Witness ==
  /\ sortPc = "sorted"
  /\ Acyclic(scripts)
  /\ sortedScripts # scripts
  /\ \E i \in 1..Len(scripts) : \E d, e \in PresentHandles(scripts) :
       /\ d # e
       /\ DependsOn(scripts, scripts[i].handle, d)
       /\ DependsOn(scripts, scripts[i].handle, e)

\* C2: when the present handles are pairwise distinct the returned list is a
\* permutation of the input: same length, every descriptor exactly once.
C2_Permutation ==
  (sortPc = "sorted" /\ UniqueHandles(scripts)) =>
    IsPermutation(sortedScripts, scripts)

\* a full list with a cycle and a descriptor without a handle
C2_Witness ==
  /\ sortPc = "sorted"
  /\ UniqueHandles(scripts)
  /\ Len(scripts) = MaxScripts
  /\ \E i \in 1..Len(scripts) : ~HasHandle(scripts[i])
  /\ ~Acyclic(scripts)
  /\ IsPermutation(sortedScripts, scripts)

\* C9: when the dependency graph has a cycle (a self-dependency included)
\* the resolver still returns every descriptor of a well-formed list exactly
\* once and warns about the circular dependency.
C9_CycleRecovered ==
  (sortPc = "sorted" /\ UniqueHandles(scripts) /\ ~Acyclic(scripts)) =>
    (IsPermutation(sortedScripts, scripts) /\ warned)

\* the cycle a -> b -> c -> a
C9_Witness ==
  /\ sortPc = "sorted"
  /\ Len(scripts) = 3
  /\ UniqueHandles(scripts)
  /\ \A i \in 1..3 : HasHandle(scripts[i]) /\ Len(scripts[i].dependencies) = 1
  /\ \A i \in 1..3 : ~DependsOn(scripts, scripts[i].handle, scripts[i].handle)
  /\ \A i \in 1..3 : OnCycle(scripts, scripts[i].handle)
  /\ warned
  /\ Len(sortedScripts) = 3

\* no dependency reference of the list names a handle of the list
NoPresentDependency(list) ==
  \A i \in 1..Len(list) : \A d \in Range(list[i].dependencies) :
    d \notin PresentHandles(list)

\* C10: when every descriptor of a well-formed list has a handle and no
\* dependency names a handle of the list, the descriptors come back in
\* exactly the input order.
C10_IndependentKeepOrder ==
  (/\ sortPc = "sorted"
   /\ UniqueHandles(scripts)
   /\ \A i \in 1..Len(scripts) : HasHandle(scripts[i])
   /\ NoPresentDependency(scripts)) =>
    sortedScripts = scripts

\* independent descriptors a, b in that order, each referring to a handle
\* that is not in the list
C10_Witness ==
  /\ sortPc = "sorted"
  /\ Len(scripts) = 2
  /\ scripts[1].handle = "a" /\ scripts[2].handle = "b"
  /\ NoPresentDependency(scripts)
  /\ \A i \in 1..2 : Includes(scripts[i].dependencies, "c")
  /\ sortedScripts = scripts

PositionOf(list, h) == CHOOSE k \in 1..Len(list) : list[k].handle = h

\* neither handle depends on the other, directly or through other handles
Unrelated(list, h, g) ==
  /\ ~Reaches(list, h, g, Cardinality(PresentHandles(list)))
  /\ ~Reaches(list, g, h, Cardinality(PresentHandles(list)))

\* the descriptor has a handle and none of its dependencies is a handle of
\* the list
Root(list, script) ==
  /\ HasHandle(script)
  /\ \A d \in Range(script.dependencies) : ~IsEdge(list, d)

C23_WarnsOnlyOnCycle ==
  (sortPc = "sorted" /\ UniqueHandles(scripts)) =>
    /\ warned <=>
         Len(QueueOrder(scripts)) < Cardinality(PresentHandles(scripts))
    /\ Acyclic(scripts) => ~warned

\* handle h is on a cycle or depends, directly or transitively, on a handle
\* that is: the queue never orders it
Stuck(list, h) ==
  \E m \in PresentHandles(list) :
    /\ OnCycle(list, m)
    /\ (h = m \/ Reaches(list, h, m, Cardinality(PresentHandles(list))))

\* C24: the returned list is the handles the queue ordered, then the handles
\* a cycle kept out of the queue in their input order, then the descriptors
\* without a handle in their input order.
C24_OutputForm ==
  (sortPc = "sorted" /\ UniqueHandles(scripts)) =>
    LET StuckTest(script) ==
          HasHandle(script) /\ Stuck(scripts, script.handle)
        FreeTest(script) ==
          HasHandle(script) /\ ~Stuck(scripts, script.handle)
        BareTest(script) == ~HasHandle(script)
    IN /\ SelectSeq(sortedScripts, FreeTest)
            \o SelectSeq(scripts, StuckTest)
            \o SelectSeq(scripts, BareTest) = sortedScripts
       /\ [k \in 1..Len(QueueOrder(scripts)) |-> sortedScripts[k].handle]
            = QueueOrder(scripts)
       /\ Len(QueueOrder(scripts)) = Len(SelectSeq(scripts, FreeTest))

\* the list of a descriptor without a handle, a that depends on itself and
\* b comes back as b, a, and the descriptor without a handle
C24_Witness ==
  /\ sortPc = "sorted"
  /\ Len(scripts) = 3
  /\ [k \in 1..3 |-> scripts[k].handle] = <<NoHandle, "a", "b">>
  /\ scripts[2].dependencies = <<"a">>
  /\ scripts[3].dependencies = <<>>
  /\ [k \in 1..3 |-> sortedScripts[k].handle] = <<"b", "a", NoHandle>>

(***************************************************************************)
(* Properties of the origin encoder                                        *)
(***************************************************************************)
\* C12: for every string x and every non-empty salt s,
\* decodeWithSalt(encodeWithSalt(x, s), s) equals x.
C12_DecodeInvertsEncode ==
  codecPc = "decoded" => decoded = data

(***************************************************************************)
(* Properties of the settings transform                                    *)
(***************************************************************************)
\* the script is the one the origin writes for the payload
OriginScript == wcInput.envelope = "origin" /\ wcInput.damage = "none"

\* C13: decoding the script of the origin and encoding the payload as it was
\* decoded gives the script of the origin back, for every payload.
C13_RoundTrip ==
  (wcPc = "reencoded" /\ OriginScript) =>
    wcOutput.ok /\ wcOutput.text = beforeScript

\* C25: decodeWcSettings of the script encodeWcSettings made of a payload
\* returns that payload, for every payload and every script with a variable
\* declaration.
C25_DecodeInvertsEncode ==
  (wcPc = "redecoded" /\ OriginScript) =>
    wcOutput.ok /\ wcOutput.target = wcInput.payload

\* whether a string of the payload holds an apostrophe
RECURSIVE HasApostrophe(_)
HasApostrophe(val) ==
  IF IsString(val) THEN Includes(val.v, Apostrophe)
  ELSE IF IsObject(val)
  THEN \E m \in 1..Len(val.v) : HasApostrophe(val.v[m].val)
  ELSE FALSE

\* the payloads the two functions do invert each other for
DecodeInvertsEncodeWithoutApostrophe ==
  (wcPc = "redecoded" /\ OriginScript /\ ~HasApostrophe(wcInput.payload)) =>
    wcOutput.ok /\ wcOutput.target = wcInput.payload

\* the members of a payload whose values transformWcSettings takes for URLs
\* of the shop
UrlPaths ==
  {<<"storePages", "cart", "permalink">>, <<"homeUrl">>, <<"dashboardUrl">>,
   <<"wcBlocksConfig", "pluginUrl">>,
   <<"stripe_settings", "stripe_return_url">>}

RECURSIVE HasPath(_, _)
HasPath(val, path) ==
  \/ path = <<>>
  \/ /\ IsObject(val)
     /\ HasKey(val, Key(Head(path)))
     /\ HasPath(Get(val, Key(Head(path))), Tail(path))

RECURSIVE GetPath(_, _)
GetPath(val, path) ==
  IF path = <<>> THEN val
  ELSE GetPath(Get(val, Key(Head(path))), Tail(path))

\* the value is a text that starts with the origin of the frontend
AtFrontend(val) ==
  /\ IsString(val)
  /\ Len(val.v) >= Len(FrontendUrl)
  /\ SubSeq(val.v, 1, Len(FrontendUrl)) = FrontendUrl

\* every URL of the payload that parses is rewritten in the target, every
\* value that does not parse is as it was (or, where a pattern could still
\* replace its origin, rewritten by the pattern)
EachUrlOnItsOwn(payload, target) ==
  \A path \in UrlPaths :
    HasPath(payload, path) =>
      /\ HasPath(target, path)
      /\ IF NewUrl(GetPath(payload, path)).ok
         THEN AtFrontend(GetPath(target, path))
         ELSE \/ GetPath(target, path) = GetPath(payload, path)
              \/ AtFrontend(GetPath(target, path))

DecodedEachUrlOnItsOwn(payload, decodedSettings) ==
  decodedSettings.ok /\ EachUrlOnItsOwn(payload, decodedSettings.target)

\* C26: a URL of the payload that cannot be rewritten keeps its value, and
\* every other recognised URL of the payload is rewritten in the script
\* transformWcSettings returns.
C26_FailureSkipsOneRewrite ==
  (wcPc = "transformed" /\ OriginScript
   /\ wcInput.payload \in SettingsPayloads) =>
    DecodedEachUrlOnItsOwn(wcInput.payload, decodeWcSettings(wcOutput.text))

\* what follows the origin in the text of a URL of the shop: its path and
\* its query string
PathAndQuery(text) == SubSeq(text, Len(WpOrigin) + 1, Len(text))

\* the URL with its origin replaced: by the proxy base path for the assets
\* of a plugin, by the origin of the frontend for the pages
OriginReplaced(path, text) ==
  IF path = <<"wcBlocksConfig", "pluginUrl">>
  THEN ProxyBase(FrontendUrl, Instance, "wp-assets") \o PathAndQuery(text)
  ELSE FrontendUrl \o PathAndQuery(text)

\* every URL of the payload is in the target with its origin replaced and
\* nothing else, and wpLoginUrl is as it was or the login route
PathAndQueryKept(payload, target) ==
  /\ \A path \in UrlPaths :
       HasPath(payload, path) =>
         /\ HasPath(target, path)
         /\ GetPath(target, path) =
              JsonString(OriginReplaced(path, GetPath(payload, path).v))
  /\ HasPath(payload, <<"wpLoginUrl">>) =>
       /\ HasPath(target, <<"wpLoginUrl">>)
       /\ GetPath(target, <<"wpLoginUrl">>) \in
            {GetPath(payload, <<"wpLoginUrl">>),
             JsonString(FrontendUrl \o <<"/", "login">>)}

DecodedPathAndQueryKept(payload, decodedSettings) ==
  decodedSettings.ok /\ PathAndQueryKept(payload, decodedSettings.target)

\* every URL of the payload parses
AllUrlsParse(payload) ==
  \A path \in UrlPaths :
    HasPath(payload, path) => NewUrl(GetPath(payload, path)).ok

\* C27: every URL transformWcSettings rewrites keeps its path and its query
\* string, with the origin replaced by the origin of the frontend (pages)
\* or by the proxy base path (assets); the other members pass through.
C27_PathAndQueryKept ==
  (wcPc = "transformed" /\ OriginScript
   /\ wcInput.payload \in SettingsPayloads
   /\ AllUrlsParse(wcInput.payload)) =>
    DecodedPathAndQueryKept(wcInput.payload,
                            decodeWcSettings(wcOutput.text))

\* the class of failure of a transform, from the input it was given
FailureClass ==
  CASE wcInput.envelope = "literal" -> "pattern"
    [] wcInput.envelope # "literal" /\ wcInput.damage = "percent" -> "percent"
    [] wcInput.envelope # "literal" /\ wcInput.damage = "json" -> "json"
    [] OTHER -> "later"

\* C15: transformWcSettings never throws, and when the transformation fails
\* it returns beforeScript unchanged.
C15_FailureReturnsInput ==
  wcPc = "transformed" =>
    /\ ~wcOutput.threw
    /\ wcOutput.failed => wcOutput.text = beforeScript

\* a transform failed on invalid JSON and returned the script it was given
C15_Witness ==
  /\ wcPc = "transformed"
  /\ wcOutput.failed
  /\ ~wcOutput.threw
  /\ FailureClass = "json"
  /\ wcOutput.text = beforeScript

(***************************************************************************)
(* Properties of the src rewrite                                           *)
(***************************************************************************)
\* whether the path as written starts with /wp-includes/ or /wp-admin/
CorePath(path) ==
  /\ Len(path) >= 3
  /\ path[1] = "/"
  /\ path[2] \in {"wp-includes", "wp-admin"}
  /\ path[3] = "/"

\* /atx/{instance}/wp-internal-assets{path} or /atx/{instance}/wp-assets{path}
ProxyShape(core, instance, path) ==
  <<"/", "atx", "/", instance, "/",
    IF core THEN "wp-internal-assets" ELSE "wp-assets">> \o path

\* a path the URL parser returns as it is written: not empty, no backslash,
\* space or quote, no segment that is . or ..
WrittenNormalised(path) ==
  /\ path # <<>>
  /\ \A k \in 1..Len(path) :
       /\ path[k] \notin {Backslash, Space, Quote}
       /\ path[k] \in {".", ".."} =>
            ~(path[k - 1] = "/" /\ (k = Len(path) \/ path[k + 1] = "/"))

\* C14 as stated: the rewritten src is the proxy path of the route of the
\* URL's path, followed by the URL's path exactly as it is written.
C14_OriginalPathPreserved ==
  (srcPc = "rewritten" /\ srcOut.proxied
   /\ ParseUrlText(AssetText(assetUrl)).ok) =>
    srcOut.src = ProxyShape(CorePath(OriginalPath(AssetText(assetUrl))),
                            srcOut.instance,
                            OriginalPath(AssetText(assetUrl)))

\* C14 amended: the rewritten src is the proxy path of the route of the
\* pathname new URL gives, followed by that pathname; it is the path as
\* written whenever the path is written in the parser's normal form.
C14_PathnamePreserved ==
  (srcPc = "rewritten" /\ srcOut.proxied
   /\ ParseUrlText(AssetText(assetUrl)).ok) =>
    /\ srcOut.src =
         ProxyShape(CorePath(ParseUrlText(AssetText(assetUrl)).pathname),
                    srcOut.instance,
                    ParseUrlText(AssetText(assetUrl)).pathname)
    /\ WrittenNormalised(OriginalPath(AssetText(assetUrl))) =>
         srcOut.src =
           ProxyShape(CorePath(OriginalPath(AssetText(assetUrl))),
                      srcOut.instance, OriginalPath(AssetText(assetUrl)))

\* HeadScripts rewrote https://wp.example.com/wp-admin/wp-content/a.js?ver=1
\* for the instance shop
C14_Witness ==
  /\ srcPc = "rewritten"
  /\ srcOut.kind = "head"
  /\ srcOut.instance = "shop"
  /\ srcOut.proxied
  /\ assetUrl = [origin |-> WpOriginText,
                 units |-> <<<<"/", "wp-admin">>, <<"/", "wp-content">>,
                             <<"/", "a.js">>>>,
                 query |-> VersionQuery]
  /\ srcOut.src = <<"/", "atx", "/", "shop", "/", "wp-internal-assets",
                    "/", "wp-admin", "/", "wp-content", "/", "a.js">>

\* the src starts with /atx/{instance}/wp-internal-assets or
\* /atx/{instance}/wp-assets
ProxyPrefixed(src, instance) ==
  /\ Len(src) >= 6
  /\ SubSeq(src, 1, 6) \in {ProxyShape(TRUE, instance, <<>>),
                            ProxyShape(FALSE, instance, <<>>)}

\* whether both texts are URLs and their origins differ
DifferentOrigins(script, backend) ==
  script.ok /\ backend.ok /\ script.origin # backend.origin

\* C20: BodyScripts gives the element the src as it is only when it resolved
\* a backend URL and the src and the backend URL both parse and have
\* different origins; in every other case (equal origins, a text that does
\* not parse, no backend URL) the element gets a proxy path.
C20_BypassOnlyCrossOrigin ==
  (srcPc = "rewritten" /\ srcOut.kind = "body") =>
    IF /\ srcOut.backendUrl # <<>>
       /\ DifferentOrigins(ParseUrlText(AssetText(assetUrl)),
                           ParseUrlText(srcOut.backendUrl))
    THEN ~srcOut.proxied /\ srcOut.src = AssetText(assetUrl)
    ELSE srcOut.proxied /\ ProxyPrefixed(srcOut.src, srcOut.instance)

\* BodyScripts, which resolved https://wp.example.com/, gave
\* https://shop.example.com/a.js?ver=1 to the element as it is
C20_Witness ==
  /\ srcPc = "rewritten"
  /\ srcOut.kind = "body"
  /\ srcOut.backendUrl = WpOriginText \o <<"/">>
  /\ assetUrl = [origin |-> CdnOriginText, units |-> <<<<"/", "a.js">>>>,
                 query |-> VersionQuery]
  /\ ~srcOut.proxied
  /\ srcOut.src = CdnOriginText \o <<"/", "a.js">> \o VersionQuery

\* the text starts with the prefix
StartsWith(text, prefix) ==
  Len(text) >= Len(prefix) /\ SubSeq(text, 1, Len(prefix)) = prefix

\* the URL is one of the WordPress site of the instance
ServedBy(url, instance) ==
  /\ ParseUrlText(url).ok
  /\ \/ StartsWith(url, instance.wpHomeUrl \o <<"/">>)
     \/ StartsWith(url, instance.wpSiteUrl \o <<"/">>)

\* the origin and the path of a URL
OriginAndPath(urlObj) == urlObj.origin \o urlObj.pathname

\* C30: for an asset URL of the WordPress site of an instance, the URL to
\* which proxyByWCR rewrites the request for the proxy path the loader made
\* of it is the origin and path of the asset URL, also for a site in a
\* directory.
C30_ProxyInvertsRewrite ==
  (srcPc = "proxied" /\ ServedBy(AssetText(assetUrl), srcOut.wp)) =>
    /\ srcOut.target.rewritten
    /\ srcOut.target.url = OriginAndPath(ParseUrlText(AssetText(assetUrl)))

\* the sites the proxy does lead back to the asset for: WordPress at the
\* root of its host
ProxyInvertsRewriteAtRoot ==
  (/\ srcPc = "proxied"
   /\ ServedBy(AssetText(assetUrl), srcOut.wp)
   /\ srcOut.wp.wpHomeUrl = WpOriginText) =>
    /\ srcOut.target.rewritten
    /\ srcOut.target.url = OriginAndPath(ParseUrlText(AssetText(assetUrl)))

(***************************************************************************)
(* Properties of the loaders                                               *)
(***************************************************************************)
\* the positions of the script elements loader i appended
ScriptElements(i) ==
  {e \in 1..Len(document[i]) : document[i][e].kind = "script"}

\* those still waiting for load or error
Pending(i) == {e \in ScriptElements(i) : document[i][e].state = "pending"}

\* the position in the sorted list of loader i of the script with this key
Position(i, key) ==
  CHOOSE k \in 1..Len(loaders[i].sortedScripts) :
    CacheKey(loaders[i].sortedScripts[k], k) = key

\* number of script elements with this key appended by loaders of this kind
Attachments(kind, key) ==
  LET RECURSIVE Sum(_)
      Sum(j) ==
        IF j > Len(loaders) THEN 0
        ELSE (IF loaders[j].kind = kind
              THEN Cardinality({e \in ScriptElements(j) :
                                  document[j][e].key = key})
              ELSE 0) + Sum(j + 1)
  IN Sum(1)

\* C3: within one run the script elements are attached one at a time in the
\* order of the sorted list: a later one is attached only after the earlier
\* one fired load or error, so at most one is pending.
C3_OneAtATimeInOrder ==
  \A i \in 1..Len(loaders) :
    /\ Cardinality(Pending(i)) <= 1
    /\ \A e1, e2 \in ScriptElements(i) :
         e1 < e2 =>
           /\ document[i][e1].state # "pending"
           /\ Position(i, document[i][e1].key)
                < Position(i, document[i][e2].key)

\* jquery was listed after wp-api-fetch, is attached first, has fired, and
\* wp-api-fetch is now the one pending element of the run
C3_Witness ==
  \E i \in 1..Len(loaders) :
    /\ loaders[i].scripts = <<ApiFetch, JQuery, HeadInline>>
    /\ \E e1, e2 \in ScriptElements(i) :
         /\ e1 < e2
         /\ document[i][e1].key = "script-jquery"
         /\ document[i][e2].key = "script-wp-api-fetch"
         /\ Pending(i) = {e2}

\* the length of document[j] before loader j existed is 0
ElementCount(j) == IF j <= Len(document) THEN Len(document[j]) ELSE 0

\* C4: the error event of a script inserts its cache key into LoadCache and
\* moves the run on to the next script it has to wait for, or to Done with
\* the completion callback; and a key that failed is never attached again by
\* a loader sharing the LoadCache.
C4_ErrorAdvances ==
  [][\A i \in 1..Len(loaders) : \A e \in ScriptElements(i) :
       /\ (document[i][e].state = "pending" /\
           document'[i][e].state = "failed") =>
            /\ document[i][e].key \in LoadCache'[loaders[i].kind]
            /\ loaders'[i].currentIndex >= loaders[i].currentIndex
            /\ \/ /\ loaders'[i].phase = "done"
                  /\ loaders'[i].completions = loaders[i].completions + 1
               \/ /\ loaders'[i].currentIndex > loaders[i].currentIndex
                  /\ \E f \in (Len(document[i]) + 1)..Len(document'[i]) :
                       /\ document'[i][f].kind = "script"
                       /\ document'[i][f].state = "pending"
       /\ document[i][e].state = "failed" =>
            \A j \in 1..Len(loaders') :
              loaders'[j].kind = loaders[i].kind =>
                \A f \in (ElementCount(j) + 1)..Len(document'[j]) :
                  document'[j][f].kind = "script" =>
                    document'[j][f].key # document[i][e].key
    ]_vars

\* a run in which a script failed and a later one was attached reached Done,
\* and a later run of the same list attached nothing
C4_Witness ==
  \E i, j \in 1..Len(loaders) :
    /\ i < j
    /\ loaders[i].kind = loaders[j].kind
    /\ loaders[i].phase = "done" /\ loaders[i].completions = 1
    /\ \E e1, e2 \in ScriptElements(i) :
         e1 < e2 /\ document[i][e1].state = "failed"
    /\ loaders[j].phase = "done"
    /\ document[j] = <<>>

\* C5: the completion callback fires exactly once per run: not before every
\* script of the phase is skipped, completed or failed, and as soon as that
\* is so, which for an empty filtered list is at the start.
C5_CompleteExactlyOnce ==
  \A i \in 1..Len(loaders) :
    LET L == loaders[i]
        allSettled == /\ L.hasLoadedRef
                      /\ L.phase # "resolving"
                      /\ L.currentIndex = Len(L.sortedScripts)
                      /\ Pending(i) = {}
    IN /\ L.completions <= 1
       /\ L.completions = 1 <=> allSettled
       /\ (L.hasLoadedRef /\ FilterLocation(L.scripts, L.kind) = <<>>) =>
            L.completions = 1

\* a run of two scripts, the first failed and the second loaded, has called
\* the callback once
C5_Witness ==
  \E i \in 1..Len(loaders) :
    /\ loaders[i].completions = 1
    /\ Len(loaders[i].sortedScripts) >= 2
    /\ \E e1, e2 \in ScriptElements(i) :
         /\ e1 < e2
         /\ document[i][e1].state = "failed"
         /\ document[i][e2].state = "loaded"

\* C6: while waitFor is false a BodyScripts instance has done nothing (no
\* fetch, no element, no LoadCache insertion, no callback), and with waitFor
\* wired to the head loader's callback no element of the body phase exists
\* before a HeadScripts run has called onComplete.
C6_BodyWaitsForHead ==
  /\ \A i \in 1..Len(loaders) :
       (loaders[i].kind = "body" /\ ~WaitFor) =>
         /\ ~loaders[i].hasLoadedRef
         /\ loaders[i].phase = "idle"
         /\ ~loaders[i].fetching
         /\ loaders[i].currentIndex = 0
         /\ loaders[i].completions = 0
         /\ loaders[i].domReady = 0
         /\ document[i] = <<>>
  /\ ~WaitFor =>
       /\ LoadCache["body"] = {}
       /\ BackendUrlCache[Instance] = ""
       /\ ~bodyScriptsLoaded
       /\ ~wcSettingsProcessed
  /\ \A i \in 1..Len(loaders) :
       (/\ loaders[i].kind = "body"
        /\ page.waitFor = "wired"
        /\ loaders[i].hasLoadedRef) =>
         \E j \in 1..Len(loaders) :
           loaders[j].kind = "head" /\ loaders[j].completions = 1

\* a wired BodyScripts has attached a FOOTER script after a HeadScripts run
\* that loaded a HEADER script called onComplete
C6_Witness ==
  \E i, j \in 1..Len(loaders) :
    /\ loaders[i].kind = "body"
    /\ page.waitFor = "wired"
    /\ ScriptElements(i) # {}
    /\ loaders[j].kind = "head"
    /\ loaders[j].completions = 1
    /\ \E e \in ScriptElements(j) : document[j][e].state = "loaded"

\* C7: a run that starts after a run of the same list by a loader sharing
\* the LoadCache reached Done attaches nothing, and when the list was
\* loaded by just these two runs every script with a src has exactly one
\* script element overall.
C7_SecondRunAttachesNothing ==
  \A i \in 1..Len(loaders) :
    loaders[i].replay =>
      /\ document[i] = <<>>
      /\ loaders[i].phase \in {"resolving", "done"}
      /\ Cardinality({j \in 1..Len(loaders) :
                        loaders[j].kind = loaders[i].kind /\
                        loaders[j].hasLoadedRef}) = 2 =>
           \A k \in 1..Len(loaders[i].sortedScripts) :
             loaders[i].sortedScripts[k].src # NoSrc =>
               Attachments(loaders[i].kind,
                           CacheKey(loaders[i].sortedScripts[k], k)) = 1

\* the second run of a list with two scripts with src and an anonymous
\* inline script is Done
C7_Witness ==
  \E i \in 1..Len(loaders) :
    /\ loaders[i].replay
    /\ loaders[i].phase = "done"
    /\ loaders[i].completions = 1
    /\ Len(loaders[i].sortedScripts) = 3
    /\ \E k \in 1..3 : /\ loaders[i].sortedScripts[k].src = NoSrc
                       /\ loaders[i].sortedScripts[k].extraData
    /\ \E j \in 1..Len(loaders) : Cardinality(ScriptElements(j)) = 2

\* C8: over any interleaving of runs sharing one LoadCache the script of a
\* cache key is attached at most once in the page lifetime.
C8_AtMostOncePerKey ==
  \A i \in 1..Len(loaders) : \A e \in ScriptElements(i) :
    Attachments(loaders[i].kind, document[i][e].key) <= 1

\* the positions of the elements loader i appended for this key
Group(i, key) == {p \in 1..Len(document[i]) : document[i][p].key = key}

\* the state of the script element of the group, "none" without one
GroupState(i, key) ==
  IF \E p \in Group(i, key) : document[i][p].kind = "script"
  THEN document[i][CHOOSE p \in Group(i, key) :
                     document[i][p].kind = "script"].state
  ELSE "none"

\* what a loader of this kind appends for a script whose element is in this
\* state, in order
ExpectedKinds(kind, script, state) ==
  (IF script.extraData THEN <<"extra">> ELSE <<>>)
  \o (IF script.before THEN <<"before">> ELSE <<>>)
  \o (IF kind = "head" /\ script.handle = "wp-api-fetch"
      THEN <<"config">> ELSE <<>>)
  \o (IF script.src # NoSrc THEN <<"script">> ELSE <<>>)
  \o (IF script.src # NoSrc /\ script.after /\ state = "loaded"
      THEN <<"after">> ELSE <<>>)

\* C17: what a loader appends for one script stands together in the order
\* extraData, before, NextPress config (head phase, wp-api-fetch), script
\* element, and the after fragment follows only a script element that fired
\* load, before anything of the next script; every script of a run that finds
\* the LoadCache empty has its elements.
C17_InjectionOrder ==
  \A i \in 1..Len(loaders) :
    /\ \A e \in 1..Len(document[i]) :
         LET key == document[i][e].key
             first == CHOOSE p \in Group(i, key) :
                        \A q \in Group(i, key) : p <= q
             count == Cardinality(Group(i, key))
         IN /\ Group(i, key) = first..(first + count - 1)
            /\ [p \in 1..count |-> document[i][first + p - 1].kind] =
                 ExpectedKinds(loaders[i].kind,
                               loaders[i].sortedScripts[Position(i, key)],
                               GroupState(i, key))
    /\ Cardinality({j \in 1..Len(loaders) :
                      loaders[j].kind = loaders[i].kind}) = 1 =>
         \A k \in 1..loaders[i].currentIndex :
           ExpectedKinds(loaders[i].kind, loaders[i].sortedScripts[k],
                         "pending") # <<>> =>
             Group(i, CacheKey(loaders[i].sortedScripts[k], k)) # {}

\* HeadScripts appended jquery, its after fragment when load fired, then the
\* extraData, before, config and script element of wp-api-fetch; BodyScripts
\* appended the before fragment and the script element of wc-settings, which
\* fired error, and is Done
C17_Witness ==
  /\ Len(loaders) = 2
  /\ loaders[1].kind = "head"
  /\ [p \in 1..Len(document[1]) |-> document[1][p].kind] =
       <<"script", "after", "extra", "before", "config", "script">>
  /\ loaders[2].kind = "body"
  /\ loaders[2].phase = "done"
  /\ [p \in 1..Len(document[2]) |-> document[2][p].kind] =
       <<"before", "script">>
  /\ document[2][2].state = "failed"
  /\ loaders[2].sortedScripts[1].after

\* C19: when the effect of a loader that has started runs again, it starts
\* no second run: no loader goes back to resolving the origin, the document,
\* the LoadCache and the BackendUrlCache stay as they are, and no completion
\* callback sets its flag.
C19_StartedEffectRunsOnce ==
  [][\A i \in 1..Len(loaders) :
       Retrigger(i) =>
         UNCHANGED <<loaders, document, LoadCache, BackendUrlCache,
                     headScriptsLoaded, bodyScriptsLoaded,
                     wcSettingsProcessed>>]_vars

\* the effect of a started loader has run again while the loader, mounted,
\* waits for a script element it appended, and the document holds that
\* element once
C19_Witness ==
  /\ retriggered
  /\ \E i \in 1..Len(loaders) :
       /\ Mounted(i)
       /\ loaders[i].hasLoadedRef
       /\ loaders[i].phase = "loading"
       /\ Cardinality({e \in 1..Len(document[i]) :
                         document[i][e].kind = "script"
                         /\ document[i][e].state = "pending"}) = 1

\* C21: an entry of BackendUrlCache is never removed or replaced; a call of
\* getBackendUrl made while the instance has an entry issues no request and
\* returns the entry; a request that fails adds no entry.
C21_CacheKeepsOrigin ==
  [][/\ BackendUrlCache[Instance] # "" =>
          BackendUrlCache'[Instance] = BackendUrlCache[Instance]
     /\ \A i \in 1..Len(loaders') :
          (/\ BackendUrlCache[Instance] # ""
           /\ loaders'[i].phase = "resolving"
           /\ (i > Len(loaders) \/ loaders[i].phase # "resolving")) =>
            ~loaders'[i].fetching
     /\ \A i \in 1..Len(loaders) :
          (/\ loaders[i].phase = "resolving"
           /\ ~loaders[i].fetching
           /\ loaders'[i].phase # "resolving") =>
            /\ loaders'[i].backendUrl = BackendUrlCache[Instance]
            /\ loaders'[i].backendUrl # ""
     /\ \A i \in 1..Len(loaders) :
          OriginFailed(i) => UNCHANGED BackendUrlCache]_vars

\* the first BodyScripts resolved the backend URL; the second, mounted
\* afterwards, called getBackendUrl without a request and waits for the
\* promise
C21_Witness ==
  /\ Len(loaders) = 2
  /\ loaders[1].kind = "body"
  /\ loaders[1].backendUrl = BackendUrl
  /\ loaders[2].kind = "body"
  /\ loaders[2].phase = "resolving"
  /\ ~loaders[2].fetching
  /\ BackendUrlCache[Instance] = BackendUrl

\* loader i went past position k of its list without appending anything,
\* although the script there has something to append
Skipped(i, k) ==
  /\ k <= loaders[i].currentIndex
  /\ Group(i, CacheKey(loaders[i].sortedScripts[k], k)) = {}
  /\ ExpectedKinds(loaders[i].kind, loaders[i].sortedScripts[k],
                   "pending") # <<>>

\* a loader of the kind appended the elements of this very descriptor, and
\* its script element, if it has one, fired load or error
ReachedTerminal(kind, script) ==
  \E j \in 1..Len(loaders) :
    /\ loaders[j].kind = kind
    /\ \E k \in 1..loaders[j].currentIndex :
         /\ loaders[j].sortedScripts[k] = script
         /\ Group(j, CacheKey(script, k)) # {}
         /\ GroupState(j, CacheKey(script, k)) \in
              {"loaded", "failed", "none"}

\* C29: a loader skips a descriptor only if that same descriptor reached
\* its terminal event in this or an earlier run.
C29_SkipsOnlyLoaded ==
  \A i \in 1..Len(loaders) :
    \A k \in 1..Len(loaders[i].sortedScripts) :
      Skipped(i, k) =>
        ReachedTerminal(loaders[i].kind, loaders[i].sortedScripts[k])

(***************************************************************************)
(* Properties of the loaders that concern what is bound to happen          *)
(***************************************************************************)
\* a BodyScripts rendered as the documentation shows, without waitFor, on a
\* page with FOOTER scripts
DocumentedBody ==
  /\ page.waitFor = "unset"
  /\ FilterLocation(page.scripts, "body") # <<>>
  /\ \E i \in 1..Len(loaders) : loaders[i].kind = "body"

\* a BodyScripts has gone through its FOOTER scripts
BodyLoaded ==
  \E i \in 1..Len(loaders) :
    loaders[i].kind = "body" /\ loaders[i].phase = "done"

\* C16: BodyScripts rendered with only the scripts prop eventually loads the
\* FOOTER scripts it is given.
C16_DocumentedBodyLoads == DocumentedBody ~> BodyLoaded

\* loader i has passed its latch
Started(i) == i \in 1..Len(loaders) /\ loaders[i].hasLoadedRef

\* loader i is Done and has called its completion callback
Done(i) ==
  /\ i \in 1..Len(loaders)
  /\ loaders[i].phase = "done"
  /\ loaders[i].completions = 1

\* C18: when every attached script element fires load or error and the
\* request of getBackendUrl settles, every run that has started reaches Done
\* and calls its completion callback, whether or not the origin was resolved
\* and whether or not its component is still mounted.
C18_StartedRunsComplete ==
  \A i \in 1..MaxRuns : Started(i) ~> Done(i)

\* a BodyScripts whose origin request failed waits for a script element
\* while a later BodyScripts instance has taken its place
C18_Witness ==
  \E i \in 1..Len(loaders) :
    /\ loaders[i].kind = "body"
    /\ loaders[i].hasLoadedRef
    /\ loaders[i].backendUrl = ""
    /\ ~Mounted(i)
    /\ Pending(i) # {}

\* a mounted loader of the kind has the script in its scripts prop, and
\* waitFor is true if it is a BodyScripts
Received(kind, script) ==
  /\ \E i \in 1..Len(loaders) : Mounted(i) /\ loaders[i].kind = kind
  /\ kind = "body" => WaitFor
  /\ Includes(FilterLocation(page.scripts, kind), script)

\* an element of the script is in the document, or its key is in the
\* LoadCache of the kind
AttachedOrCached(kind, script) ==
  \E k \in 1..MaxPage :
    \/ CacheKey(script, k) \in LoadCache[kind]
    \/ \E i \in 1..Len(loaders) :
         /\ loaders[i].kind = kind
         /\ \E e \in 1..Len(document[i]) :
              document[i][e].key = CacheKey(script, k)

\* C28: every script of its location that a mounted loader has in its
\* scripts prop, the list of a later render of the same instance included,
\* is eventually attached to the document or found in the LoadCache.
C28_ReceivedScriptsLoad ==
  \A kind \in {"head", "body"} : \A script \in Range(ScriptPool) :
    Received(kind, script) ~> AttachedOrCached(kind, script)

====
